---- MODULE Spec2Model ----
(***************************************************************************)
(* A model of the CSV analysis tool: the DataAnalyzer session object of    *)
(* analysis_backend.py (load_data, _detect_column_types and the analysis   *)
(* and plotting operations) and the tkinter App of main.py that drives it. *)
(*                                                                         *)
(* A table cell is a string; the missing value is NaN.  A DataFrame is a   *)
(* record of its column labels, its row labels (index), one dtype per      *)
(* column and one sequence of cells per column.                            *)
(***************************************************************************)
EXTENDS Integers, Sequences, FiniteSets, TLC

VARIABLES
    df,                 \* DataAnalyzer.df: None or a DataFrame
    filepath,           \* DataAnalyzer.filepath: None or the file last read
    continuous_cols,    \* DataAnalyzer.continuous_cols
    categorical_cols,   \* DataAnalyzer.categorical_cols
    last,               \* what the last call of a DataAnalyzer method did
    current_file,       \* App.current_file
    cat_listbox,        \* items of App.cat_listbox
    cont_listbox,       \* items of App.cont_listbox
    cat_sel,            \* selected positions of App.cat_listbox
    cont_sel,           \* selected positions of App.cont_listbox
    current_canvas,     \* App.current_canvas: None or the canvas of a figure
    plot_frame,         \* the canvases that are children of App.plot_frame
    dialog              \* the last messagebox / file written by the App

backend == <<df, filepath, continuous_cols, categorical_cols>>
gui == <<current_file, cat_listbox, cont_listbox, cat_sel, cont_sel,
         current_canvas, plot_frame, dialog>>
vars == <<df, filepath, continuous_cols, categorical_cols, last,
          current_file, cat_listbox, cont_listbox, cat_sel, cont_sel,
          current_canvas, plot_frame, dialog>>

(***************************************************************************)
(* Bounds of the model.                                                    *)
(***************************************************************************)
\* data rows of the exhaustively enumerated small files
MaxRows == 3
\* the generated wide columns have CardinalityThreshold - Spread ..
\* CardinalityThreshold + Spread distinct values
Spread == 1

\* the generated tall tables have LargeSample - TallSpread ..
\* LargeSample + TallSpread rows, of which up to TallSpread have a missing cell
TallSpread == 3

\* the p-values run through the ten-thousandths from PSpread below to
\* PSpread above each of 0.001, 0.01 and 0.05
PSpread == 2

\* the coefficients run through the hundredths from RSpread below to
\* RSpread above each of 0.5 and 0.7
RSpread == 1

\* the tables of the cluster chart have up to ElbowRows rows
ElbowRows == 12

\* the tables of the dendrogram have max_samples - DendrogramSpread ..
\* max_samples + DendrogramSpread rows, of which up to DendrogramSpread have
\* a missing cell
DendrogramSpread == 2

(***************************************************************************)
(* Program constants.                                                      *)
(***************************************************************************)
\* _detect_column_types: nunique() > 10
CardinalityThreshold == 10

None == [none |-> TRUE]
NaN == "NaN"

\* read_csv(..., na_values=['', 'nan', 'NaN'])
na_values == {"", "nan", "NaN"}

(***************************************************************************)
(* Helpers on sequences.                                                   *)
(***************************************************************************)
Range(s) == {s[i] : i \in DOMAIN s}

RECURSIVE SelectIdx(_, _, _)
\* the positions of i..n, in increasing order, for which keep holds (the
\* two halves of the range one after the other)
SelectIdx(n, keep, i) ==
    IF i > n THEN <<>>
    ELSE IF i = n THEN (IF keep[i] THEN <<i>> ELSE <<>>)
    ELSE LET mid == (i + n) \div 2
         IN  SelectIdx(mid, keep, i) \o SelectIdx(n, keep, mid + 1)

Pick(s, idx) == [k \in 1..Len(idx) |-> s[idx[k]]]

\* the position of the first occurrence of x in s, 0 when there is none
IndexOf(s, x) ==
    IF x \in Range(s) THEN CHOOSE i \in DOMAIN s : s[i] = x /\ \A j \in 1..(i - 1) : s[j] # x
    ELSE 0

(***************************************************************************)
(* pandas.read_csv as load_data calls it.                                  *)
(***************************************************************************)
\* the tokens the parser reads as numbers
NumericTokens == {ToString(i) : i \in 0..(CardinalityThreshold + Spread + 1)} \cup {"1.0", "2.0"}

\* the number a numeric token denotes, written canonically
to_numeric(tok) ==
    IF tok = "1.0" THEN "1" ELSE IF tok = "2.0" THEN "2" ELSE tok

\* duplicate header names are made unique: g, g.1, g.2, ...
mangle_dupe_cols(header) ==
    [i \in 1..Len(header) |->
        LET before == Cardinality({j \in 1..(i - 1) : header[j] = header[i]})
        IN  IF before = 0 THEN header[i] ELSE header[i] \o "." \o ToString(before)]

\* read_csv raises: the file cannot be opened or decoded, or it is empty
read_csv_raises(file) == ~file.readable \/ file.lines = <<>>

\* skiprows=[1]: the second physical line is skipped; a blank line (one
\* empty field in a one-column file) is skipped by the parser
data_lines(file) ==
    LET n == Len(file.lines)
        keep == [i \in 1..n |-> i >= 3 /\ file.lines[i] # <<"">>]
    IN  Pick(file.lines, SelectIdx(n, keep, 1))

\* the dtype the parser infers for a column of tokens
infer_dtype(tokens) ==
    IF tokens # <<>>
       /\ \A i \in DOMAIN tokens : tokens[i] \in na_values \/ tokens[i] \in NumericTokens
    THEN "num" ELSE "obj"

parse_column(tokens) ==
    LET dt == infer_dtype(tokens)
    IN  [i \in 1..Len(tokens) |->
            IF tokens[i] \in na_values THEN NaN
            ELSE IF dt = "num" THEN to_numeric(tokens[i]) ELSE tokens[i]]

read_csv(file) ==
    LET header == mangle_dupe_cols(file.lines[1])
        rows == data_lines(file)
        raw == [c \in 1..Len(header) |-> [r \in 1..Len(rows) |-> rows[r][c]]]
    IN  [columns |-> header,
         index |-> [r \in 1..Len(rows) |-> r - 1],
         dtypes |-> [c \in 1..Len(header) |-> infer_dtype(raw[c])],
         cells |-> [c \in 1..Len(header) |-> parse_column(raw[c])]]

(***************************************************************************)
(* DataFrame operations used by the backend.                               *)
(***************************************************************************)
NCols(d) == Len(d.columns)
NRows(d) == Len(d.index)

\* df.dropna(how='all', axis=1)
dropna_all_columns(d) ==
    LET keep == [c \in 1..NCols(d) |-> \E r \in 1..NRows(d) : d.cells[c][r] # NaN]
        idx == SelectIdx(NCols(d), keep, 1)
    IN  [columns |-> Pick(d.columns, idx),
         index |-> d.index,
         dtypes |-> Pick(d.dtypes, idx),
         cells |-> Pick(d.cells, idx)]

\* df.dropna(how='all', axis=0)
dropna_all_rows(d) ==
    LET keep == [r \in 1..NRows(d) |-> \E c \in 1..NCols(d) : d.cells[c][r] # NaN]
        idx == SelectIdx(NRows(d), keep, 1)
    IN  [columns |-> d.columns,
         index |-> Pick(d.index, idx),
         dtypes |-> d.dtypes,
         cells |-> [c \in 1..NCols(d) |-> Pick(d.cells[c], idx)]]

\* col in df.columns
HasColumn(d, col) == col \in Range(d.columns)

\* df[col]: the cells of the column labelled col
Column(d, col) == d.cells[IndexOf(d.columns, col)]

\* pd.api.types.is_numeric_dtype(df[col])
is_numeric_dtype(d, col) == d.dtypes[IndexOf(d.columns, col)] = "num"

\* df[col].nunique(): the number of distinct non-missing values
nunique(d, col) == Cardinality(Range(Column(d, col)) \ {NaN})

(***************************************************************************)
(* DataAnalyzer._detect_column_types                                       *)
(***************************************************************************)
\* ColumnRole with the threshold itself counted as continuous
ColumnRoleAtLeast(d, col) ==
    IF is_numeric_dtype(d, col)
    THEN (IF nunique(d, col) >= CardinalityThreshold THEN "continuous" ELSE "categorical")
    ELSE "categorical"

\* ColumnRole by cardinality alone, whatever the dtype
ColumnRoleByCardinality(d, col) ==
    IF nunique(d, col) > CardinalityThreshold THEN "continuous" ELSE "categorical"

\* the role the loop body gives one column
ColumnRole(d, col) ==
    IF is_numeric_dtype(d, col)
    THEN (IF nunique(d, col) > CardinalityThreshold THEN "continuous" ELSE "categorical")
    ELSE "categorical"

RECURSIVE DetectLoopBoth(_, _, _)
\* DetectLoop without the else: a continuous column is appended to both lists
DetectLoopBoth(d, i, lists) ==
    IF i > NCols(d) THEN lists
    ELSE LET col == d.columns[i]
         IN  DetectLoopBoth(d, i + 1,
                [lists EXCEPT
                    !.continuous = IF ColumnRole(d, col) = "continuous"
                                   THEN Append(@, col) ELSE @,
                    !.categorical = Append(@, col)])

RECURSIVE DetectLoop(_, _, _)
\* for col in self.df.columns: append col to one of the two lists
DetectLoop(d, i, lists) ==
    IF i > NCols(d) THEN lists
    ELSE LET col == d.columns[i]
         IN  DetectLoop(d, i + 1,
                IF ColumnRole(d, col) = "continuous"
                THEN [lists EXCEPT !.continuous = Append(@, col)]
                ELSE [lists EXCEPT !.categorical = Append(@, col)])

\* detect_column_types without the reset: the loop appends to the old lists
detect_column_types_keep(d, old) == DetectLoop(d, 1, old)

\* detect_column_types returning early on a DataFrame without columns
detect_column_types_unless_empty(d, old) ==
    IF NCols(d) = 0 THEN old
    ELSE DetectLoop(d, 1, [continuous |-> <<>>, categorical |-> <<>>])

\* the two lists are reset, then filled by the loop
detect_column_types(d, old) ==
    DetectLoop(d, 1, [continuous |-> <<>>, categorical |-> <<>>])

(***************************************************************************)
(* DataAnalyzer.load_data                                                  *)
(***************************************************************************)
\* the DataFrame without the second dropna
CleanedFrameColumnsOnly(file) == dropna_all_columns(read_csv(file))

\* the DataFrame load_data keeps: read, then drop empty columns, then rows
CleanedFrame(file) == dropna_all_rows(dropna_all_columns(read_csv(file)))

\* load_data emptying the session before it reads the file
load_data_resetting(file) ==
    IF read_csv_raises(file)
    THEN /\ df' = None
         /\ filepath' = filepath
         /\ continuous_cols' = <<>>
         /\ categorical_cols' = <<>>
    ELSE LET d == CleanedFrame(file)
             roles == detect_column_types(d, [continuous |-> continuous_cols,
                                              categorical |-> categorical_cols])
         IN  /\ df' = d
             /\ filepath' = file
             /\ continuous_cols' = roles.continuous
             /\ categorical_cols' = roles.categorical

\* the effect of load_data(file) on the DataAnalyzer
load_data(file) ==
    IF read_csv_raises(file)
    THEN UNCHANGED backend
    ELSE LET d == CleanedFrame(file)
             roles == detect_column_types(d, [continuous |-> continuous_cols,
                                              categorical |-> categorical_cols])
         IN  /\ df' = d
             /\ filepath' = file
             /\ continuous_cols' = roles.continuous
             /\ categorical_cols' = roles.categorical

(***************************************************************************)
(* The files given to load_data.                                           *)
(***************************************************************************)
RECURSIVE Product(_)
\* the rows whose c-th field is drawn from alphabets[c]
Product(alphabets) ==
    IF alphabets = <<>> THEN {<<>>}
    ELSE {<<a>> \o rest : a \in alphabets[1], rest \in Product(Tail(alphabets))}

AnnotationLine(header) == [c \in 1..Len(header) |-> "note"]

\* every file with this header and n data rows over the alphabets
FilesOf(header, alphabets, n) ==
    {[readable |-> TRUE, lines |-> <<header, AnnotationLine(header)>> \o rows] :
        rows \in [1..n -> Product(alphabets)]}

\* a file that cannot be opened, an empty file, a file of a header alone
UnreadableFile == [readable |-> FALSE, lines |-> <<>>]
EmptyFile == [readable |-> TRUE, lines |-> <<>>]
HeaderOnlyFile == [readable |-> TRUE, lines |-> << <<"g", "y">> >>]

\* a column of WideRows cells: k distinct values, then the fill (the first
\* value again, the token 1.0, or nothing)
WideRows == CardinalityThreshold + Spread + 1
WideValue(kind, i) == IF kind = "num" THEN ToString(i) ELSE "s" \o ToString(i)
WideColumn(kind, k, fill) ==
    [r \in 1..WideRows |->
        IF r <= k THEN WideValue(kind, r)
        ELSE IF fill = "repeat" THEN WideValue(kind, 1)
        ELSE IF fill = "float" THEN "1.0" ELSE ""]
WideColumns ==
    {WideColumn(kind, k, fill) :
        kind \in {"num", "str"},
        k \in (CardinalityThreshold - Spread)..(CardinalityThreshold + Spread),
        fill \in {"repeat", "float", ""}}

\* the file with the given header whose c-th column is cols[c]
FileOfColumns(header, cols) ==
    [readable |-> TRUE,
     lines |-> <<header, AnnotationLine(header)>>
               \o [r \in 1..Len(cols[1]) |-> [c \in 1..Len(cols) |-> cols[c][r]]]]

WideFiles ==
    {FileOfColumns(<<"g">>, <<c>>) : c \in WideColumns}
    \cup {FileOfColumns(<<"g", "y">>, <<c1, c2>>) : c1, c2 \in WideColumns}

\* small files of mixed cells, with and without a repeated header name
MixedTokens == {"", "nan", "1", "a"}
MixedFiles ==
    UNION {FilesOf(h, [c \in 1..Len(h) |-> MixedTokens], n) :
            h \in {<<"g">>, <<"g", "y">>, <<"g", "g">>}, n \in 0..(MaxRows - 1)}

ClassifyFiles ==
    WideFiles \cup MixedFiles \cup {UnreadableFile, EmptyFile, HeaderOnlyFile}

(***************************************************************************)
(* What a call of a DataAnalyzer method did.                               *)
(*   outcome  ok, or the kind of failure                                   *)
(*   form     return (a report, a figure or an error message is returned)  *)
(*            or raise (an exception reaches the caller)                   *)
(*   trace    the checks, column accesses and library routines executed,   *)
(*            in order                                                     *)
(*   count    the number the report or message states (-1: none)           *)
(***************************************************************************)
Result(outcome, form, trace, count) ==
    [outcome |-> outcome, form |-> form, trace |-> trace, count |-> count]

\* a result with a detail: the data handed to the library routine, or what
\* the report says beside the count
Detailed(r, detail) ==
    [outcome |-> r.outcome, form |-> r.form, trace |-> r.trace, count |-> r.count,
     detail |-> detail]

\* one step of a method body: a column access or a library routine.  cols
\* are the column labels it looks up in the DataFrame (KeyError, or the
\* routine's own error, when one is missing); a fallible routine raises
\* when the library rejects the data
Step(name, cols, fallible) == [name |-> name, cols |-> cols, fallible |-> fallible]

StepRaises(d, s, lib) ==
    \/ \E c \in Range(s.cols) : ~HasColumn(d, c)
    \/ s.fallible /\ lib = "raises"

\* run the steps in order until one raises
RunSteps(d, steps, lib) ==
    LET bad == {i \in DOMAIN steps : StepRaises(d, steps[i], lib)}
        stop == IF bad = {} THEN Len(steps)
                ELSE CHOOSE i \in bad : \A j \in bad : i <= j
    IN  [trace |-> [i \in 1..stop |-> steps[i].name], raised |-> bad # {}]

\* if self.df is None
CheckDf == <<"df is None">>
\* if col not in self.df.columns
CheckCols == <<"df is None", "in df.columns">>

\* the distinct non-missing values of a column, by first appearance
RECURSIVE UniqueFrom(_, _, _)
UniqueFrom(cells, i, seen) ==
    IF i > Len(cells) THEN seen
    ELSE UniqueFrom(cells, i + 1,
            IF cells[i] = NaN \/ cells[i] \in Range(seen) THEN seen
            ELSE Append(seen, cells[i]))

\* [x for x in df[col].unique() if pd.notna(x)], df[col].dropna().unique()
unique_notna(d, col) == UniqueFrom(Column(d, col), 1, <<>>)

\* len(df[df[cat_col] == value][cont_col].dropna())
GroupSize(d, cat_col, value, cont_col) ==
    Cardinality({r \in 1..NRows(d) :
        Column(d, cat_col)[r] = value /\ Column(d, cont_col)[r] # NaN})

\* the values of the tables in ascending order: numbers by value, then
\* text by code point
Collation ==
    <<"0", "1", "1.0", "2", "2.0", "3", "4", "5", "6", "7", "8", "9", "10", "11", "12",
      "a", "b", "c", "s1", "s10", "s11", "s12", "s2", "s3", "s4", "s5", "s6", "s7",
      "s8", "s9">>

\* the index of df.groupby(cat_col): the distinct non-missing values of
\* cat_col in ascending order
groupby_keys(d, cat_col) ==
    LET present == Range(Column(d, cat_col)) \ {NaN}
    IN  Pick(Collation,
             SelectIdx(Len(Collation),
                       [k \in 1..Len(Collation) |-> Collation[k] \in present], 1))

\* df.groupby(cat_col)[cont_col].apply(lambda x: x.dropna().values): one
\* group per distinct non-missing value of cat_col, with its size
groupby_sizes(d, cat_col, cont_col) ==
    LET keys == groupby_keys(d, cat_col)
    IN  [k \in 1..Len(keys) |-> GroupSize(d, cat_col, keys[k], cont_col)]

\* the index labels of the rows of a group that have a value of cont_col
group_rows(d, cat_col, value, cont_col) ==
    Pick(d.index,
         SelectIdx(NRows(d),
                   [r \in 1..NRows(d) |->
                       Column(d, cat_col)[r] = value /\ Column(d, cont_col)[r] # NaN], 1))

\* group_data without the filter: the empty groups are kept
group_data_all(sizes) == sizes

\* group_data = [g for g in groups.values if len(g) > 0]
group_data(sizes) ==
    LET keep == [k \in 1..Len(sizes) |-> sizes[k] > 0]
    IN  Pick(sizes, SelectIdx(Len(sizes), keep, 1))

(***************************************************************************)
(* The two-group and multi-group tests.                                    *)
(***************************************************************************)
run_t_test(d, cat_col, cont_col, lib) ==
    IF d = None THEN Result("no_data", "return", CheckDf, -1)
    ELSE IF ~HasColumn(d, cat_col) \/ ~HasColumn(d, cont_col)
    THEN Result("column_not_found", "return", CheckCols, -1)
    ELSE LET unique_vals == unique_notna(d, cat_col)
             seen == CheckCols \o <<"df[]">>
         IN  IF Len(unique_vals) # 2
             THEN Result("invalid_group_count", "return", seen, Len(unique_vals))
             ELSE IF GroupSize(d, cat_col, unique_vals[1], cont_col) = 0
                     \/ GroupSize(d, cat_col, unique_vals[2], cont_col) = 0
             THEN Result("no_valid_data", "return", seen \o <<"df[]", "df[]">>, -1)
             ELSE IF lib = "raises"
             THEN Result("error", "return",
                         seen \o <<"df[]", "df[]", "stats.ttest_ind">>, -1)
             ELSE Result("ok", "return",
                         seen \o <<"df[]", "df[]", "stats.ttest_ind">>, -1)

\* no check of the columns and none of empty groups: a missing column is a
\* KeyError inside the try, an empty group is handed to stats.mannwhitneyu
mann_whitney_test(d, cat_col, cont_col, lib) ==
    IF d = None THEN Result("no_data", "return", CheckDf, -1)
    ELSE IF ~HasColumn(d, cat_col)
    THEN Result("error", "return", CheckDf \o <<"df[]">>, -1)
    ELSE LET unique_vals == unique_notna(d, cat_col)
             seen == CheckDf \o <<"df[]">>
         IN  IF Len(unique_vals) # 2
             THEN Result("invalid_group_count", "return", seen, -1)
             ELSE IF ~HasColumn(d, cont_col)
             THEN Result("error", "return", seen \o <<"df[]">>, -1)
             ELSE IF lib = "raises"
             THEN Result("error", "return",
                         seen \o <<"df[]", "df[]", "stats.mannwhitneyu">>, -1)
             ELSE Result("ok", "return",
                         seen \o <<"df[]", "df[]", "stats.mannwhitneyu">>, -1)

\* the minimum number of non-empty groups: if len(group_data) < 2
MinGroups == 2

\* for name, data in zip(group_names, group_data): the k-th line has the
\* k-th name of the index and the k-th array of group_data, which holds the
\* rows of the k-th group that was kept
zip_lines(d, cat_col, cont_col, group_names, data, kept) ==
    [k \in 1..Len(data) |->
        [name |-> group_names[k],
         n |-> data[k],
         rows |-> group_rows(d, cat_col, group_names[kept[k]], cont_col)]]

\* one_way_anova and kruskal_wallis_test share their body up to the routine
MultiGroupTest(d, cat_col, cont_col, routine, lib) ==
    IF d = None THEN Result("no_data", "return", CheckDf, -1)
    ELSE IF ~HasColumn(d, cat_col) \/ ~HasColumn(d, cont_col)
    THEN Result("error", "return", CheckDf \o <<"df.groupby">>, -1)
    ELSE LET sizes == groupby_sizes(d, cat_col, cont_col)
             group_names == groupby_keys(d, cat_col)
             data == group_data(sizes)
             kept == SelectIdx(Len(sizes), [k \in 1..Len(sizes) |-> sizes[k] > 0], 1)
             seen == CheckDf \o <<"df.groupby">>
         IN  IF Len(data) < MinGroups
             THEN Result("insufficient_groups", "return", seen, -1)
             ELSE IF lib = "raises"
             THEN Result("error", "return", seen \o <<routine>>, -1)
             ELSE Detailed(Result("ok", "return", seen \o <<routine>>, Len(data)),
                           zip_lines(d, cat_col, cont_col, group_names, data, kept))

one_way_anova(d, cat_col, cont_col, lib) ==
    MultiGroupTest(d, cat_col, cont_col, "stats.f_oneway", lib)

kruskal_wallis_test(d, cat_col, cont_col, lib) ==
    MultiGroupTest(d, cat_col, cont_col, "stats.kruskal", lib)

(***************************************************************************)
(* Descriptive statistics and the basic plots.                             *)
(***************************************************************************)
\* the result of a body whose exceptions are handled as given
Finish(pre, run, failure, form) ==
    IF run.raised THEN Result(failure, form, pre \o run.trace, -1)
    ELSE Result("ok", "return", pre \o run.trace, -1)

\* an optional argument left at None
NoneCol == ""

\* a columns=None argument, and a given list of column labels
DefaultColumns == [given |-> FALSE, names |-> <<>>]
Columns(names) == [given |-> TRUE, names |-> names]

get_descriptive_stats(d, column, lib) ==
    IF d = None THEN Result("no_data", "return", CheckDf, -1)
    ELSE IF ~HasColumn(d, column)
    THEN Result("column_not_found", "return", CheckCols, -1)
    ELSE Finish(CheckCols,
                RunSteps(d, <<Step("df[]", <<column>>, FALSE),
                              Step("describe", <<>>, TRUE)>>, lib),
                "error", "return")

\* plot_histogram looking the column up before it checks the Dataset
plot_histogram_column_first(d, column, lib) ==
    IF d = None THEN Result("exception", "raise", <<"in df.columns">>, -1)
    ELSE IF ~HasColumn(d, column)
    THEN Result("column_not_found", "raise", <<"in df.columns", "df is None">>, -1)
    ELSE Finish(<<"in df.columns", "df is None">>,
                RunSteps(d, <<Step("plt.subplots", <<>>, FALSE),
                              Step("sns.histplot", <<column>>, TRUE)>>, lib),
                "plot_failed", "raise")

plot_histogram(d, column, lib) ==
    IF d = None THEN Result("no_data", "raise", CheckDf, -1)
    ELSE IF ~HasColumn(d, column)
    THEN Result("column_not_found", "raise", CheckCols, -1)
    ELSE Finish(CheckCols,
                RunSteps(d, <<Step("plt.subplots", <<>>, FALSE),
                              Step("sns.histplot", <<column>>, TRUE)>>, lib),
                "plot_failed", "raise")

plot_boxplot(d, x_col, y_col, lib) ==
    IF d = None THEN Result("no_data", "raise", CheckDf, -1)
    ELSE IF ~HasColumn(d, x_col) \/ ~HasColumn(d, y_col)
    THEN Result("column_not_found", "raise", CheckCols, -1)
    ELSE Finish(CheckCols,
                RunSteps(d, <<Step("plt.subplots", <<>>, FALSE),
                              Step("sns.boxplot", <<x_col, y_col>>, TRUE)>>, lib),
                "plot_failed", "raise")

plot_qq(d, column, lib) ==
    IF d = None THEN Result("no_data", "raise", CheckDf, -1)
    ELSE IF ~HasColumn(d, column)
    THEN Result("column_not_found", "raise", CheckCols, -1)
    ELSE Finish(CheckCols,
                RunSteps(d, <<Step("plt.subplots", <<>>, FALSE),
                              Step("df[]", <<column>>, FALSE),
                              Step("stats.probplot", <<>>, TRUE)>>, lib),
                "plot_failed", "raise")

\* no check of the two columns: seaborn looks them up
plot_violin(d, x_col, y_col, lib) ==
    IF d = None THEN Result("no_data", "raise", CheckDf, -1)
    ELSE Finish(CheckDf,
                RunSteps(d, <<Step("plt.subplots", <<>>, FALSE),
                              Step("sns.violinplot", <<x_col, y_col>>, TRUE)>>, lib),
                "plot_failed", "raise")

\* x_col is used when it is given and a column, else the index is
plot_line(d, y_col, x_col, lib) ==
    IF d = None THEN Result("no_data", "raise", CheckDf, -1)
    ELSE IF ~HasColumn(d, y_col)
    THEN Result("column_not_found", "raise", CheckCols, -1)
    ELSE Finish(CheckCols,
                RunSteps(d, <<Step("plt.subplots", <<>>, FALSE),
                              IF x_col # NoneCol /\ HasColumn(d, x_col)
                              THEN Step("ax.plot(x, y)", <<x_col, y_col>>, TRUE)
                              ELSE Step("ax.plot(index, y)", <<y_col>>, TRUE)>>, lib),
                "plot_failed", "raise")

\* plot_bar: is_numeric_dtype(...) and nunique() > 10
BarHistogramThreshold == 10

\* the test of plot_bar with at least 10 distinct values
bar_as_histogram_at_least(d, column) ==
    is_numeric_dtype(d, column) /\ nunique(d, column) >= BarHistogramThreshold

\* the column is drawn as a histogram, not as bars of counts
bar_as_histogram(d, column) ==
    is_numeric_dtype(d, column) /\ nunique(d, column) > BarHistogramThreshold

plot_bar(d, column, lib) ==
    IF d = None THEN Result("no_data", "raise", CheckDf, -1)
    ELSE IF ~HasColumn(d, column)
    THEN Result("column_not_found", "raise", CheckCols, -1)
    ELSE Finish(CheckCols,
                RunSteps(d, <<Step("plt.subplots", <<>>, FALSE)>>
                            \o (IF bar_as_histogram(d, column)
                                THEN <<Step("ax.hist", <<column>>, TRUE)>>
                                ELSE <<Step("value_counts", <<column>>, FALSE),
                                       Step("ax.bar", <<>>, TRUE)>>), lib),
                "plot_failed", "raise")

plot_pie(d, column, lib) ==
    IF d = None THEN Result("no_data", "raise", CheckDf, -1)
    ELSE IF ~HasColumn(d, column)
    THEN Result("column_not_found", "raise", CheckCols, -1)
    ELSE Finish(CheckCols,
                RunSteps(d, <<Step("plt.subplots", <<>>, FALSE),
                              Step("value_counts", <<column>>, FALSE),
                              Step("ax.pie", <<>>, TRUE)>>, lib),
                "plot_failed", "raise")

\* hue_col is handed to seaborn unchecked
plot_scatter(d, x_col, y_col, hue_col, add_regression, lib) ==
    IF d = None THEN Result("no_data", "raise", CheckDf, -1)
    ELSE IF ~HasColumn(d, x_col) \/ ~HasColumn(d, y_col)
    THEN Result("column_not_found", "raise", CheckCols, -1)
    ELSE Finish(CheckCols,
                RunSteps(d, <<Step("plt.subplots", <<>>, FALSE),
                              IF add_regression /\ hue_col = NoneCol
                              THEN Step("sns.regplot", <<x_col, y_col>>, TRUE)
                              ELSE Step("sns.scatterplot",
                                        <<x_col, y_col>>
                                        \o (IF hue_col = NoneCol THEN <<>> ELSE <<hue_col>>),
                                        TRUE)>>, lib),
                "plot_failed", "raise")

(***************************************************************************)
(* Correlation, regression and the remaining tests.                        *)
(***************************************************************************)
\* if len(columns) < 2
MinVariables == 2

correlation_matrix(d, cont, columns, lib) ==
    IF d = None THEN Result("no_data", "raise", CheckDf, -1)
    ELSE LET cols == IF columns.given THEN columns.names ELSE cont
             pre == CheckDf \o <<"len(columns)">>
         IN  IF Len(cols) < MinVariables
             THEN Result("insufficient_variables", "raise", pre, -1)
             ELSE Finish(pre, RunSteps(d, <<Step("df[]", cols, FALSE),
                                            Step("df.corr", <<>>, TRUE)>>, lib),
                         "exception", "raise")

\* correlation_matrix is called inside the try: its ValueError is wrapped
plot_correlation_heatmap(d, cont, columns, lib) ==
    IF d = None THEN Result("no_data", "raise", CheckDf, -1)
    ELSE LET inner == correlation_matrix(d, cont, columns, lib)
             pre == CheckDf \o inner.trace
         IN  IF inner.outcome = "insufficient_variables"
             THEN Result("insufficient_variables", "raise", pre, -1)
             ELSE IF inner.outcome # "ok"
             THEN Result("plot_failed", "raise", pre, -1)
             ELSE Finish(pre, RunSteps(d, <<Step("plt.subplots", <<>>, FALSE),
                                            Step("sns.heatmap", <<>>, TRUE)>>, lib),
                         "plot_failed", "raise")

get_correlation_analysis(d, cont, columns, lib) ==
    IF d = None THEN Result("no_data", "return", CheckDf, -1)
    ELSE LET cols == IF columns.given THEN columns.names ELSE cont
             inner == correlation_matrix(d, cont, Columns(cols), lib)
             pre == CheckDf \o inner.trace
         IN  IF inner.outcome = "insufficient_variables"
             THEN Result("insufficient_variables", "return", pre, -1)
             ELSE IF inner.outcome # "ok"
             THEN Result("error", "return", pre, -1)
             ELSE Result("ok", "return", pre, -1)

linear_regression(d, x_col, y_col, lib) ==
    IF d = None THEN Result("no_data", "return", CheckDf, -1)
    ELSE Finish(CheckDf,
                RunSteps(d, <<Step("df[]", <<x_col, y_col>>, FALSE),
                              Step("stats.linregress", <<>>, TRUE)>>, lib),
                "error", "return")

chi_square_test(d, col1, col2, lib) ==
    IF d = None THEN Result("no_data", "return", CheckDf, -1)
    ELSE Finish(CheckDf,
                RunSteps(d, <<Step("df[]", <<col1>>, FALSE),
                              Step("df[]", <<col2>>, FALSE),
                              Step("pd.crosstab", <<>>, FALSE),
                              Step("stats.chi2_contingency", <<>>, TRUE)>>, lib),
                "error", "return")

\* df[column].dropna() holds more than 5000 values
LargeSample == 5000

\* the number of non-missing cells of a column
count_notna(d, col) ==
    LET data == Column(d, col)
    IN  Cardinality({r \in DOMAIN data : data[r] # NaN})

\* normality_test with the large-sample procedure from LargeSample on
normality_test_at_least(d, column, lib) ==
    IF d = None THEN Result("no_data", "return", CheckDf, -1)
    ELSE IF ~HasColumn(d, column)
    THEN Result("error", "return", CheckDf \o <<"df[]">>, -1)
    ELSE LET n == count_notna(d, column)
             run == RunSteps(d, <<Step("df[]", <<column>>, FALSE),
                                  IF n >= LargeSample
                                  THEN Step("stats.kstest", <<>>, TRUE)
                                  ELSE Step("stats.shapiro", <<>>, TRUE),
                                  Step("stats.skew", <<>>, FALSE),
                                  Step("stats.kurtosis", <<>>, FALSE)>>, lib)
         IN  IF run.raised THEN Result("error", "return", CheckDf \o run.trace, -1)
             ELSE Result("ok", "return", CheckDf \o run.trace, n)

normality_test(d, column, lib) ==
    IF d = None THEN Result("no_data", "return", CheckDf, -1)
    ELSE IF ~HasColumn(d, column)
    THEN Result("error", "return", CheckDf \o <<"df[]">>, -1)
    ELSE LET n == count_notna(d, column)
             run == RunSteps(d, <<Step("df[]", <<column>>, FALSE),
                                  IF n > LargeSample
                                  THEN Step("stats.kstest", <<>>, TRUE)
                                  ELSE Step("stats.shapiro", <<>>, TRUE),
                                  Step("stats.skew", <<>>, FALSE),
                                  Step("stats.kurtosis", <<>>, FALSE)>>, lib)
         IN  IF run.raised THEN Result("error", "return", CheckDf \o run.trace, -1)
             ELSE Result("ok", "return", CheckDf \o run.trace, n)

\* dropna on the first column alone
paired_rows_first(d, col1, col2) ==
    {r \in 1..NRows(d) : Column(d, col1)[r] # NaN}

\* len(df[[col1, col2]].dropna()): the rows where both cells are present
paired_rows(d, col1, col2) ==
    {r \in 1..NRows(d) : Column(d, col1)[r] # NaN /\ Column(d, col2)[r] # NaN}

\* the index labels of a set of rows, in the order of the table
RowLabels(d, rows) ==
    Pick(d.index, SelectIdx(NRows(d), [r \in 1..NRows(d) |-> r \in rows], 1))

\* data1 and data2 are the two columns of valid_data: the detail is the
\* rows of each, the count is len(valid_data)
paired_t_test(d, col1, col2, lib) ==
    IF d = None THEN Result("no_data", "return", CheckDf, -1)
    ELSE LET run == RunSteps(d, <<Step("df[]", <<col1, col2>>, FALSE),
                                  Step("stats.ttest_rel", <<>>, TRUE)>>, lib)
             valid_data == paired_rows(d, col1, col2)
         IN  IF run.raised
             THEN Detailed(Result("error", "return", CheckDf \o run.trace, -1),
                           IF run.trace[Len(run.trace)] = "stats.ttest_rel"
                           THEN [data1 |-> RowLabels(d, valid_data),
                                 data2 |-> RowLabels(d, valid_data)]
                           ELSE <<>>)
             ELSE Detailed(Result("ok", "return", CheckDf \o run.trace,
                                  Cardinality(valid_data)),
                           [data1 |-> RowLabels(d, valid_data),
                            data2 |-> RowLabels(d, valid_data)])

get_all_descriptive_stats(d, cont, columns, lib) ==
    IF d = None THEN Result("no_data", "return", CheckDf, -1)
    ELSE LET cols == IF columns.given THEN columns.names ELSE cont
         IN  Finish(CheckDf,
                    RunSteps(d, <<Step("df[]", cols, FALSE),
                                  Step("describe", <<>>, TRUE)>>, lib),
                    "error", "return")

missing_value_analysis(d, lib) ==
    IF d = None THEN Result("no_data", "return", CheckDf, -1)
    ELSE Finish(CheckDf, RunSteps(d, <<Step("df.isnull", <<>>, TRUE)>>, lib),
                "error", "return")

\* describe() keeps the numeric columns of a frame that has any, and every
\* column of a frame that has none
described(d, cols) ==
    LET numeric == SelectIdx(Len(cols), [k \in 1..Len(cols) |-> is_numeric_dtype(d, cols[k])], 1)
    IN  IF numeric = <<>> THEN cols ELSE Pick(cols, numeric)

\* df[columns].describe().T, with the columns missing and missing% when
\* they were added (lines 1001-1002)
stats_table(d, cols, missing) ==
    [name |-> "descriptive statistics",
     index |-> described(d, cols),
     missing |-> IF missing
                 THEN [k \in 1..Len(described(d, cols)) |->
                          Cardinality({r \in 1..NRows(d) :
                                          Column(d, described(d, cols)[k])[r] = NaN})]
                 ELSE <<>>]

\* df[columns].corr(): a square table over the numeric columns
corr_table(d, cols) ==
    LET numeric == SelectIdx(Len(cols), [k \in 1..Len(cols) |-> is_numeric_dtype(d, cols[k])], 1)
    IN  [name |-> "correlation matrix", index |-> Pick(cols, numeric),
         header |-> Pick(cols, numeric)]

\* a cell as to_excel writes it (a missing value is left blank), and as a
\* reader of the sheet finds it
to_excel_cell(v) == IF v = NaN THEN "" ELSE v
read_excel_cell(c) == IF c = "" THEN NaN ELSE c

\* to_excel of the whole DataFrame instead of the selection
raw_data_sheet_all(d, cols) ==
    [name |-> "raw data", header |-> d.columns,
     rows |-> [r \in 1..NRows(d) |->
                  [k \in 1..NCols(d) |-> to_excel_cell(d.cells[k][r])]]]

\* df[columns].to_excel(writer, index=False): a header row of the selected
\* labels, then one row of cells for each row of the DataFrame
raw_data_sheet(d, cols) ==
    [name |-> "raw data", header |-> cols,
     rows |-> [r \in 1..NRows(d) |->
                  [k \in 1..Len(cols) |-> to_excel_cell(Column(d, cols[k])[r])]]]

\* the first bytes of a text file written with this encoding
BOM == <<239, 187, 191>>
encoded_head(encoding) == IF encoding = "utf-8-sig" THEN BOM ELSE <<>>

\* lib = "no_writer": openpyxl is not installed (ImportError), and the
\* descriptive statistics are written as CSV instead.  describe() raises
\* on a selection of no columns.  The detail is the file written
export_statistics_to_excel(d, cont, columns, lib) ==
    IF d = None THEN Result("no_data", "return", CheckDf, -1)
    ELSE LET cols == IF columns.given THEN columns.names ELSE cont
             run == IF cols = <<>>
                    THEN RunSteps(d, <<Step("df[]", cols, FALSE),
                                       Step("describe", <<>>, TRUE)>>, "raises")
                    ELSE RunSteps(d, <<Step("df[]", cols, FALSE),
                                       Step("describe", <<>>, lib = "raises"),
                                       Step("df.corr", <<>>, FALSE),
                                       Step("pd.ExcelWriter", <<>>, lib = "no_writer")>>,
                                  IF lib = "ok" THEN "ok" ELSE "raises")
         IN  IF ~run.raised
             THEN Detailed(Result("ok", "return",
                                  CheckDf \o run.trace \o <<"to_excel", "to_excel", "to_excel">>,
                                  -1),
                           [format |-> "xlsx", head |-> <<>>,
                            sheets |-> <<stats_table(d, cols, TRUE), corr_table(d, cols),
                                         raw_data_sheet(d, cols)>>])
             ELSE IF lib = "no_writer" /\ run.trace[Len(run.trace)] = "pd.ExcelWriter"
             THEN Detailed(Result("ok_csv", "return",
                                  CheckDf \o run.trace \o <<"describe", "to_csv">>, -1),
                           [format |-> "csv", head |-> encoded_head("utf-8-sig"),
                            sheets |-> <<stats_table(d, cols, FALSE)>>])
             ELSE Result("error", "return", CheckDf \o run.trace, -1)

(***************************************************************************)
(* 3-D plots, PCA and clustering: no try block, so a library exception or  *)
(* a KeyError reaches the caller as it is.                                 *)
(***************************************************************************)
\* hue_col is used only when it is given and a column
plot_3d_scatter(d, x_col, y_col, z_col, hue_col, lib) ==
    IF d = None THEN Result("no_data", "raise", CheckDf, -1)
    ELSE Finish(CheckDf,
                RunSteps(d, <<Step("plt.figure", <<>>, FALSE),
                              Step("fig.add_subplot", <<>>, FALSE),
                              Step("df[]", <<x_col>>, FALSE),
                              Step("df[]", <<y_col>>, FALSE),
                              Step("df[]", <<z_col>>, FALSE)>>
                            \o (IF hue_col # NoneCol /\ HasColumn(d, hue_col)
                                THEN <<Step("df[]", <<hue_col>>, FALSE)>> ELSE <<>>)
                            \o <<Step("ax.scatter", <<>>, TRUE)>>, lib),
                "exception", "raise")

\* if len(columns) < 3
MinVariables3D == 3

\* plot_pca_2d and plot_pca_3d differ in the number of components
PlotPca(d, cont, columns, hue_col, least, lib) ==
    IF d = None THEN Result("no_data", "raise", CheckDf, -1)
    ELSE LET cols == IF columns.given THEN columns.names ELSE cont
             pre == CheckDf \o <<"len(columns)">>
         IN  IF Len(cols) < least
             THEN Result("insufficient_variables", "raise", pre, -1)
             ELSE Finish(pre,
                         RunSteps(d, <<Step("df[]", cols, FALSE),
                                       Step("StandardScaler", <<>>, TRUE),
                                       Step("PCA", <<>>, TRUE),
                                       Step("plt.subplots", <<>>, FALSE)>>
                                     \o (IF hue_col # NoneCol /\ HasColumn(d, hue_col)
                                         THEN <<Step("df[]", <<hue_col>>, FALSE)>>
                                         ELSE <<>>)
                                     \o <<Step("ax.scatter", <<>>, TRUE)>>, lib),
                         "exception", "raise")

plot_pca_2d(d, cont, columns, hue_col, lib) ==
    PlotPca(d, cont, columns, hue_col, MinVariables, lib)

plot_pca_3d(d, cont, columns, hue_col, lib) ==
    PlotPca(d, cont, columns, hue_col, MinVariables3D, lib)

\* no check of the number of columns
get_pca_analysis(d, cont, columns, lib) ==
    IF d = None THEN Result("no_data", "return", CheckDf, -1)
    ELSE LET cols == IF columns.given THEN columns.names ELSE cont
         IN  Finish(CheckDf,
                    RunSteps(d, <<Step("df[]", cols, FALSE),
                                  Step("StandardScaler", <<>>, TRUE),
                                  Step("PCA", <<>>, TRUE)>>, lib),
                    "exception", "raise")

\* the rows of df[columns].dropna(): every cell of the columns is present
complete_rows(d, cols) ==
    {r \in 1..NRows(d) : \A c \in Range(cols) : Column(d, c)[r] # NaN}

\* K_range = range(1, min(10, len(data)))
ElbowStop == 10

\* the range with its stop included
K_range_inclusive(n_samples) ==
    LET stop == IF ElbowStop < n_samples THEN ElbowStop ELSE n_samples
    IN  [i \in 1..(IF stop > 1 THEN stop ELSE 0) |-> i]

K_range(n_samples) ==
    LET stop == IF ElbowStop < n_samples THEN ElbowStop ELSE n_samples
    IN  [i \in 1..(IF stop > 1 THEN stop - 1 ELSE 0) |-> i]

plot_kmeans_cluster(d, cont, columns, lib) ==
    IF d = None THEN Result("no_data", "raise", CheckDf, -1)
    ELSE LET cols == IF columns.given THEN columns.names ELSE cont
             pre == CheckDf \o <<"len(columns)">>
         IN  IF Len(cols) < MinVariables
             THEN Result("insufficient_variables", "raise", pre, -1)
             ELSE LET run == RunSteps(d, <<Step("df[]", cols, FALSE),
                                           Step("StandardScaler", <<>>, TRUE),
                                           Step("KMeans", <<>>, TRUE),
                                           Step("PCA", <<>>, TRUE),
                                           Step("plt.subplots", <<>>, FALSE)>>, lib)
                  IN  IF run.raised
                      THEN Result("exception", "raise", pre \o run.trace, -1)
                      ELSE Result("ok", "return",
                                  pre \o run.trace
                                  \o [k \in DOMAIN K_range(Cardinality(complete_rows(d, cols)))
                                        |-> "KMeans"],
                                  Len(K_range(Cardinality(complete_rows(d, cols)))))

\* no check of the number of columns
get_cluster_analysis(d, cont, columns, lib) ==
    IF d = None THEN Result("no_data", "return", CheckDf, -1)
    ELSE LET cols == IF columns.given THEN columns.names ELSE cont
         IN  Finish(CheckDf,
                    RunSteps(d, <<Step("df[]", cols, FALSE),
                                  Step("StandardScaler", <<>>, TRUE),
                                  Step("KMeans", <<>>, TRUE)>>, lib),
                    "exception", "raise")

\* max_samples = 50
max_samples == 50

\* no check of the number of columns; count is the number of rows linked
plot_dendrogram(d, cont, columns, label_col, lib) ==
    IF d = None THEN Result("no_data", "raise", CheckDf, -1)
    ELSE LET cols == IF columns.given THEN columns.names ELSE cont
             run == RunSteps(d, <<Step("df[]", cols, FALSE)>>, lib)
         IN  IF run.raised THEN Result("exception", "raise", CheckDf \o run.trace, -1)
             ELSE LET n == Cardinality(complete_rows(d, cols))
                      rest == RunSteps(d,
                                (IF n > max_samples
                                 THEN <<Step("data.sample", <<>>, FALSE)>> ELSE <<>>)
                                \o <<Step("StandardScaler", <<>>, TRUE)>>
                                \o (IF label_col # NoneCol /\ HasColumn(d, label_col)
                                    THEN <<Step("df[]", <<label_col>>, FALSE)>> ELSE <<>>)
                                \o <<Step("plt.subplots", <<>>, FALSE),
                                     Step("linkage", <<>>, TRUE),
                                     Step("dendrogram", <<>>, TRUE)>>, lib)
                  IN  IF rest.raised
                      THEN Result("exception", "raise",
                                  CheckDf \o run.trace \o rest.trace, -1)
                      ELSE Result("ok", "return", CheckDf \o run.trace \o rest.trace,
                                  IF n > max_samples THEN max_samples ELSE n)

\* columns = self.continuous_cols[:4]
PairGridDefault == 4

plot_pair_grid(d, cont, columns, hue_col, lib) ==
    IF d = None THEN Result("no_data", "raise", CheckDf, -1)
    ELSE LET cols == IF columns.given THEN columns.names
                     ELSE SubSeq(cont, 1, IF Len(cont) < PairGridDefault
                                          THEN Len(cont) ELSE PairGridDefault)
             pre == CheckDf \o <<"len(columns)">>
         IN  IF Len(cols) < MinVariables
             THEN Result("insufficient_variables", "raise", pre, -1)
             ELSE Finish(pre,
                         RunSteps(d, <<Step("df[]", cols, FALSE)>>
                                     \o (IF hue_col # NoneCol /\ HasColumn(d, hue_col)
                                         THEN <<Step("df[]", <<hue_col>>, FALSE)>>
                                         ELSE <<>>)
                                     \o <<Step("sns.pairplot", <<>>, TRUE)>>, lib),
                         "exception", "raise")

plot_distribution_comparison(d, column, group_col, lib) ==
    IF d = None THEN Result("no_data", "raise", CheckDf, -1)
    ELSE Finish(CheckDf,
                RunSteps(d, <<Step("plt.subplots", <<>>, FALSE),
                              Step("df[]", <<group_col>>, FALSE),
                              Step("df[]", <<column>>, FALSE),
                              Step("ax.hist", <<>>, TRUE),
                              Step("ax.boxplot", <<>>, TRUE)>>, lib),
                "exception", "raise")

\* columns = self.continuous_cols[:6]; more than 8 columns are cut to 8
RadarDefault == 6
RadarMost == 8

plot_radar_chart(d, cont, columns, group_col, lib) ==
    IF d = None THEN Result("no_data", "raise", CheckDf, -1)
    ELSE LET given == IF columns.given THEN columns.names
                      ELSE SubSeq(cont, 1, IF Len(cont) < RadarDefault
                                           THEN Len(cont) ELSE RadarDefault)
             cols == IF Len(given) > RadarMost THEN SubSeq(given, 1, RadarMost) ELSE given
         IN  Finish(CheckDf,
                    RunSteps(d, <<Step("plt.subplots", <<>>, FALSE)>>
                                \o (IF group_col # NoneCol /\ HasColumn(d, group_col)
                                    THEN <<Step("df[]", <<group_col>>, FALSE)>> ELSE <<>>)
                                \o <<Step("df[]", cols, FALSE),
                                     Step("ax.plot", <<>>, TRUE)>>, lib),
                    "exception", "raise")

plot_3d_surface(d, x_col, y_col, z_col, lib) ==
    IF d = None THEN Result("no_data", "raise", CheckDf, -1)
    ELSE Finish(CheckDf,
                RunSteps(d, <<Step("df[]", <<x_col, y_col, z_col>>, FALSE),
                              Step("griddata", <<>>, TRUE),
                              Step("plt.figure", <<>>, FALSE),
                              Step("ax.plot_surface", <<>>, TRUE)>>, lib),
                "exception", "raise")

plot_3d_surface_plotly(d, x_col, y_col, z_col, lib) ==
    IF d = None THEN Result("no_data", "raise", CheckDf, -1)
    ELSE Finish(CheckDf,
                RunSteps(d, <<Step("df[]", <<x_col, y_col, z_col>>, FALSE),
                              Step("griddata", <<>>, TRUE),
                              Step("go.Figure", <<>>, FALSE),
                              Step("pio.write_html", <<>>, TRUE)>>, lib),
                "exception", "raise")

\* group_col, when given, is looked up unchecked
plot_3d_scatter_plotly(d, x_col, y_col, z_col, group_col, lib) ==
    IF d = None THEN Result("no_data", "raise", CheckDf, -1)
    ELSE Finish(CheckDf,
                RunSteps(d, <<Step("df.dropna", <<x_col, y_col, z_col>>, FALSE),
                              Step("go.Figure", <<>>, FALSE)>>
                            \o (IF group_col # NoneCol
                                THEN <<Step("df[]", <<group_col>>, FALSE)>> ELSE <<>>)
                            \o <<Step("pio.write_html", <<>>, TRUE)>>, lib),
                "exception", "raise")

(***************************************************************************)
(* The files of a session, and the arguments of the calls.                 *)
(***************************************************************************)
\* three continuous columns (x3 with missing cells), a text column of two
\* groups and a numeric column of two values
StudyFile ==
    FileOfColumns(<<"x1", "x2", "x3", "g", "h">>,
                  <<WideColumn("num", CardinalityThreshold + 1, "repeat"),
                    WideColumn("num", CardinalityThreshold + 1, "float"),
                    WideColumn("num", CardinalityThreshold + 1, ""),
                    WideColumn("str", 2, "repeat"),
                    WideColumn("num", 2, "repeat")>>)

\* two categorical columns and no continuous one
SurveyFile ==
    FileOfColumns(<<"g", "y">>, << <<"a", "b", "a">>, <<"1", "2", "">> >>)

SessionFiles == {StudyFile, SurveyFile, HeaderOnlyFile, UnreadableFile}

\* every table of a grouping column g and a tested column y
TestFiles ==
    UNION {FilesOf(<<"g", "y">>, <<{"", "a", "b", "c"}, {"", "1"}>>, n) : n \in 0..MaxRows}

\* every table of two numeric columns x and y with missing cells
PairFiles ==
    UNION {FilesOf(<<"x", "y">>, <<{"", "1", "2"}, {"", "1", "3"}>>, n) : n \in 0..MaxRows}

PairCols1 == {"x", "nope"}

PairCols2 == {"y", "nope"}

\* tables of about LargeSample rows: a column id without missing cells and a
\* column y of which the first cells are missing
TallFile(rows, missing) ==
    FileOfColumns(<<"id", "y">>,
                  <<[r \in 1..rows |-> "1"],
                    [r \in 1..rows |-> IF r <= missing THEN "" ELSE ToString(r % 7)]>>)

TallFiles ==
    {TallFile(rows, missing) :
        rows \in (LargeSample - TallSpread)..(LargeSample + TallSpread),
        missing \in 0..TallSpread}

TallCols == {"id", "y", "nope"}

\* the files loaded over a loaded Dataset in the classification runs
ReloadFiles ==
    {FileOfColumns(<<"g", "y">>,
                   <<WideColumn("num", CardinalityThreshold + 1, "repeat"),
                     WideColumn("str", CardinalityThreshold + 1, "repeat")>>),
     FileOfColumns(<<"y">>, <<WideColumn("num", CardinalityThreshold, "")>>),
     HeaderOnlyFile, UnreadableFile, EmptyFile}

\* the outcomes of the external libraries
LibOutcomes == {"ok", "raises"}

TestCatCols == {"g", "nope"}
TestContCols == {"y", "nope"}
ColArgs == {"x1", "g", "nope"}
OptArgs == {NoneCol, "g", "nope"}
ListArgs ==
    {DefaultColumns, Columns(<<"x1">>), Columns(<<"x1", "x2">>),
     Columns(<<"x1", "x2", "x3">>), Columns(<<"x1", "nope">>)}

\* the column labels a call names
Names(columns) == IF columns.given THEN columns.names ELSE <<>>
Opt(col) == IF col = NoneCol THEN <<>> ELSE <<col>>

(***************************************************************************)
(* The record of the last call: the method, the column labels it was       *)
(* given, and what it did.                                                 *)
(***************************************************************************)
Call(op, cols, r) ==
    [op |-> op, cols |-> cols, outcome |-> r.outcome, form |-> r.form,
     trace |-> r.trace, count |-> r.count,
     detail |-> IF "detail" \in DOMAIN r THEN r.detail ELSE <<>>]

NoCall == Call("none", <<>>, Result("none", "none", <<>>, -1))

\* load_data's return value: the dict, or the ValueError it raises
load_data_result(file) ==
    IF read_csv_raises(file)
    THEN Result("load_failed", "raise", <<"pd.read_csv">>, -1)
    ELSE Result("ok", "return",
                <<"pd.read_csv", "df.dropna", "df.dropna", "_detect_column_types">>,
                NRows(CleanedFrame(file)))

(***************************************************************************)
(* The state after construction: DataAnalyzer.__init__ and App.__init__.   *)
(***************************************************************************)
Init ==
    /\ df = None
    /\ filepath = None
    /\ continuous_cols = <<>>
    /\ categorical_cols = <<>>
    /\ last = NoCall
    /\ current_file = None
    /\ cat_listbox = <<>>
    /\ cont_listbox = <<>>
    /\ cat_sel = {}
    /\ cont_sel = {}
    /\ current_canvas = None
    /\ plot_frame = <<>>
    /\ dialog = None

(***************************************************************************)
(* The calls of the DataAnalyzer methods.  Only load_data and              *)
(* _detect_column_types assign the object's fields.                        *)
(***************************************************************************)
LoadData(file) ==
    /\ load_data(file)
    /\ last' = Call("load_data", <<>>, load_data_result(file))
    /\ UNCHANGED gui

DetectColumnTypes ==
    /\ df # None
    /\ LET roles == detect_column_types(df, [continuous |-> continuous_cols,
                                              categorical |-> categorical_cols])
       IN  /\ continuous_cols' = roles.continuous
           /\ categorical_cols' = roles.categorical
    /\ last' = Call("_detect_column_types", <<>>,
                    Result("ok", "return", <<"_detect_column_types">>, -1))
    /\ UNCHANGED <<df, filepath>>
    /\ UNCHANGED gui

\* a method that empties continuous_cols when it raises
InvokeResetting(op, cols, r) ==
    /\ last' = Call(op, cols, r)
    /\ continuous_cols' = IF r.form = "raise" THEN <<>> ELSE continuous_cols
    /\ UNCHANGED <<df, filepath, categorical_cols>>
    /\ UNCHANGED gui

\* a method that reads the Dataset and assigns nothing
Invoke(op, cols, r) ==
    /\ last' = Call(op, cols, r)
    /\ UNCHANGED backend
    /\ UNCHANGED gui

GetDescriptiveStats(column, lib) ==
    Invoke("get_descriptive_stats", <<column>>, get_descriptive_stats(df, column, lib))

PlotHistogram(column, lib) ==
    Invoke("plot_histogram", <<column>>, plot_histogram(df, column, lib))

PlotBoxplot(x_col, y_col, lib) ==
    Invoke("plot_boxplot", <<x_col, y_col>>, plot_boxplot(df, x_col, y_col, lib))

PlotQq(column, lib) ==
    Invoke("plot_qq", <<column>>, plot_qq(df, column, lib))

RunTTest(cat_col, cont_col, lib) ==
    Invoke("run_t_test", <<cat_col, cont_col>>, run_t_test(df, cat_col, cont_col, lib))

PlotViolin(x_col, y_col, lib) ==
    Invoke("plot_violin", <<x_col, y_col>>, plot_violin(df, x_col, y_col, lib))

PlotLine(y_col, x_col, lib) ==
    Invoke("plot_line", <<y_col>> \o Opt(x_col), plot_line(df, y_col, x_col, lib))

PlotBar(column, lib) ==
    Invoke("plot_bar", <<column>>, plot_bar(df, column, lib))

PlotPie(column, lib) ==
    Invoke("plot_pie", <<column>>, plot_pie(df, column, lib))

CorrelationMatrix(columns, lib) ==
    Invoke("correlation_matrix", Names(columns),
           correlation_matrix(df, continuous_cols, columns, lib))

PlotCorrelationHeatmap(columns, lib) ==
    Invoke("plot_correlation_heatmap", Names(columns),
           plot_correlation_heatmap(df, continuous_cols, columns, lib))

GetCorrelationAnalysis(columns, lib) ==
    Invoke("get_correlation_analysis", Names(columns),
           get_correlation_analysis(df, continuous_cols, columns, lib))

PlotScatter(x_col, y_col, hue_col, add_regression, lib) ==
    Invoke("plot_scatter", <<x_col, y_col>> \o Opt(hue_col),
           plot_scatter(df, x_col, y_col, hue_col, add_regression, lib))

LinearRegression(x_col, y_col, lib) ==
    Invoke("linear_regression", <<x_col, y_col>>, linear_regression(df, x_col, y_col, lib))

OneWayAnova(cat_col, cont_col, lib) ==
    Invoke("one_way_anova", <<cat_col, cont_col>>,
           one_way_anova(df, cat_col, cont_col, lib))

ChiSquareTest(col1, col2, lib) ==
    Invoke("chi_square_test", <<col1, col2>>, chi_square_test(df, col1, col2, lib))

NormalityTest(column, lib) ==
    Invoke("normality_test", <<column>>, normality_test(df, column, lib))

PairedTTest(col1, col2, lib) ==
    Invoke("paired_t_test", <<col1, col2>>, paired_t_test(df, col1, col2, lib))

MannWhitneyTest(cat_col, cont_col, lib) ==
    Invoke("mann_whitney_test", <<cat_col, cont_col>>,
           mann_whitney_test(df, cat_col, cont_col, lib))

KruskalWallisTest(cat_col, cont_col, lib) ==
    Invoke("kruskal_wallis_test", <<cat_col, cont_col>>,
           kruskal_wallis_test(df, cat_col, cont_col, lib))

GetAllDescriptiveStats(columns, lib) ==
    Invoke("get_all_descriptive_stats", Names(columns),
           get_all_descriptive_stats(df, continuous_cols, columns, lib))

MissingValueAnalysis(lib) ==
    Invoke("missing_value_analysis", <<>>, missing_value_analysis(df, lib))

ExportStatisticsToExcel(columns, lib) ==
    Invoke("export_statistics_to_excel", Names(columns),
           export_statistics_to_excel(df, continuous_cols, columns, lib))

Plot3dScatter(x_col, y_col, z_col, hue_col, lib) ==
    Invoke("plot_3d_scatter", <<x_col, y_col, z_col>> \o Opt(hue_col),
           plot_3d_scatter(df, x_col, y_col, z_col, hue_col, lib))

PlotPca2d(columns, hue_col, lib) ==
    Invoke("plot_pca_2d", Names(columns) \o Opt(hue_col),
           plot_pca_2d(df, continuous_cols, columns, hue_col, lib))

PlotPca3d(columns, hue_col, lib) ==
    Invoke("plot_pca_3d", Names(columns) \o Opt(hue_col),
           plot_pca_3d(df, continuous_cols, columns, hue_col, lib))

GetPcaAnalysis(columns, lib) ==
    Invoke("get_pca_analysis", Names(columns),
           get_pca_analysis(df, continuous_cols, columns, lib))

PlotKmeansCluster(columns, lib) ==
    Invoke("plot_kmeans_cluster", Names(columns),
           plot_kmeans_cluster(df, continuous_cols, columns, lib))

GetClusterAnalysis(columns, lib) ==
    Invoke("get_cluster_analysis", Names(columns),
           get_cluster_analysis(df, continuous_cols, columns, lib))

PlotDendrogram(columns, label_col, lib) ==
    Invoke("plot_dendrogram", Names(columns) \o Opt(label_col),
           plot_dendrogram(df, continuous_cols, columns, label_col, lib))

PlotPairGrid(columns, hue_col, lib) ==
    Invoke("plot_pair_grid", Names(columns) \o Opt(hue_col),
           plot_pair_grid(df, continuous_cols, columns, hue_col, lib))

PlotDistributionComparison(column, group_col, lib) ==
    Invoke("plot_distribution_comparison", <<column, group_col>>,
           plot_distribution_comparison(df, column, group_col, lib))

PlotRadarChart(columns, group_col, lib) ==
    Invoke("plot_radar_chart", Names(columns) \o Opt(group_col),
           plot_radar_chart(df, continuous_cols, columns, group_col, lib))

Plot3dSurface(x_col, y_col, z_col, lib) ==
    Invoke("plot_3d_surface", <<x_col, y_col, z_col>>,
           plot_3d_surface(df, x_col, y_col, z_col, lib))

Plot3dSurfacePlotly(x_col, y_col, z_col, lib) ==
    Invoke("plot_3d_surface_plotly", <<x_col, y_col, z_col>>,
           plot_3d_surface_plotly(df, x_col, y_col, z_col, lib))

Plot3dScatterPlotly(x_col, y_col, z_col, group_col, lib) ==
    Invoke("plot_3d_scatter_plotly", <<x_col, y_col, z_col>> \o Opt(group_col),
           plot_3d_scatter_plotly(df, x_col, y_col, z_col, group_col, lib))

(***************************************************************************)
(* The handlers of the App.                                                *)
(***************************************************************************)
\* a messagebox, or the file savefig wrote
Dialog(kind, text, figure) == [kind |-> kind, text |-> text, figure |-> figure]

\* _update_variable_lists without the two deletes
update_variable_lists_append(old, var_dict) ==
    [cat |-> old.cat \o var_dict.categorical, cont |-> old.cont \o var_dict.continuous]

\* _update_variable_lists filling each listbox from the other list
update_variable_lists_swapped(old, var_dict) ==
    [cat |-> var_dict.continuous, cont |-> var_dict.categorical]

\* _update_variable_lists: both listboxes are emptied, then filled
update_variable_lists(old, var_dict) ==
    [cat |-> var_dict.categorical, cont |-> var_dict.continuous]

\* _load_csv; choice is what the file dialog returns (None: cancelled)
LoadCsv(choice) ==
    IF choice = None THEN UNCHANGED vars
    ELSE /\ load_data(choice)
         /\ last' = Call("load_data", <<>>, load_data_result(choice))
         /\ IF read_csv_raises(choice)
            THEN /\ dialog' = Dialog("showerror", "load failed", None)
                 /\ UNCHANGED <<current_file, cat_listbox, cont_listbox, cat_sel,
                                cont_sel, current_canvas, plot_frame>>
            ELSE LET boxes == update_variable_lists(
                                 [cat |-> cat_listbox, cont |-> cont_listbox],
                                 [categorical |-> categorical_cols',
                                  continuous |-> continuous_cols'])
                 IN  /\ current_file' = choice
                     /\ cat_listbox' = boxes.cat
                     /\ cont_listbox' = boxes.cont
                     /\ cat_sel' = {}
                     /\ cont_sel' = {}
                     /\ dialog' = Dialog("showinfo", "loaded", None)
                     /\ UNCHANGED <<current_canvas, plot_frame>>

\* a click on an item of the single-selection listbox
OnCatSelect(i) ==
    /\ i \in DOMAIN cat_listbox
    /\ cat_sel' = {i}
    /\ UNCHANGED <<backend, last, current_file, cat_listbox, cont_listbox, cont_sel,
                   current_canvas, plot_frame, dialog>>

\* a selection in the extended-selection listbox
OnContSelect(sel) ==
    /\ sel # {}
    /\ sel \subseteq DOMAIN cont_listbox
    /\ cont_sel' = sel
    /\ UNCHANGED <<backend, last, current_file, cat_listbox, cont_listbox, cat_sel,
                   current_canvas, plot_frame, dialog>>

ClearCatSelection ==
    /\ cat_sel' = {}
    /\ UNCHANGED <<backend, last, current_file, cat_listbox, cont_listbox, cont_sel,
                   current_canvas, plot_frame, dialog>>

ClearContSelection ==
    /\ cont_sel' = {}
    /\ UNCHANGED <<backend, last, current_file, cat_listbox, cont_listbox, cat_sel,
                   current_canvas, plot_frame, dialog>>

\* listbox.get(curselection()[0])
First(items, sel) == items[CHOOSE i \in sel : \A j \in sel : i <= j]

\* the canvas FigureCanvasTkAgg makes of a figure; the figure shows the
\* columns of the Dataset that was loaded when it was drawn
Canvas(op, cols) == [figure |-> [op |-> op, cols |-> cols, data |-> filepath]]

\* what Tk and the canvas do inside _embed_figure: FigureCanvasTkAgg raises
\* (no widget is made), canvas.draw raises (the widget is a child of the
\* frame, not packed), or neither
TkOutcomes == {"canvas_raises", "draw_raises"}

\* _embed_figure: the children of the frame are destroyed, the new canvas
\* is made, drawn, packed and kept as current_canvas; an exception leaves
\* the method after the children were destroyed
embed_figure(canvas, tk) ==
    IF tk = "canvas_raises"
    THEN /\ plot_frame' = <<>>
         /\ UNCHANGED current_canvas
    ELSE IF tk = "draw_raises"
    THEN /\ plot_frame' = <<[figure |-> canvas.figure, packed |-> FALSE]>>
         /\ UNCHANGED current_canvas
    ELSE /\ plot_frame' = <<canvas>>
         /\ current_canvas' = canvas

\* the try block of a drawing handler: the figure is embedded, or the
\* exception of the backend or of _embed_figure is shown
Draw(op, cols, r, tk) ==
    /\ last' = Call(op, cols, r)
    /\ IF r.form = "raise"
       THEN /\ dialog' = Dialog("showerror", "draw failed", None)
            /\ UNCHANGED <<current_canvas, plot_frame>>
       ELSE /\ embed_figure(Canvas(op, cols), tk)
            /\ IF tk \in TkOutcomes
               THEN dialog' = Dialog("showerror", "draw failed", None)
               ELSE UNCHANGED dialog

Warn(text) ==
    /\ dialog' = Dialog("showwarning", text, None)
    /\ UNCHANGED <<last, current_canvas, plot_frame>>

DrawHistogram(lib) ==
    /\ IF df = None THEN Warn("load data first")
       ELSE IF cont_sel = {} THEN Warn("select a continuous variable")
       ELSE LET column == First(cont_listbox, cont_sel)
            IN  Draw("plot_histogram", <<column>>, plot_histogram(df, column, lib), lib)
    /\ UNCHANGED <<backend, current_file, cat_listbox, cont_listbox, cat_sel, cont_sel>>

DrawViolin(lib) ==
    /\ IF df = None THEN Warn("load data first")
       ELSE IF cat_sel = {} THEN Warn("select a categorical variable")
       ELSE IF cont_sel = {} THEN Warn("select a continuous variable")
       ELSE LET x_col == First(cat_listbox, cat_sel)
                y_col == First(cont_listbox, cont_sel)
            IN  Draw("plot_violin", <<x_col, y_col>>,
                     plot_violin(df, x_col, y_col, lib), lib)
    /\ UNCHANGED <<backend, current_file, cat_listbox, cont_listbox, cat_sel, cont_sel>>

\* listbox.curselection(): the selected indices in ascending order
curselection(items, sel) ==
    SelectIdx(Len(items), [i \in 1..Len(items) |-> i \in sel], 1)

\* the last two selected items instead of the first two
last_two_selected(items, sel) ==
    LET cur == curselection(items, sel)
    IN  <<items[cur[Len(cur) - 1]], items[cur[Len(cur)]]>>

\* listbox.get(sel[0]), listbox.get(sel[1])
first_two_selected(items, sel) ==
    LET cur == curselection(items, sel)
    IN  <<items[cur[1]], items[cur[2]]>>

\* the try block of a handler that shows a text report: the text is
\* displayed, or the exception is shown; shown is the messagebox the
\* handler opened before the call, if any
DisplayTextResult(op, cols, r, shown) ==
    /\ last' = Call(op, cols, r)
    /\ dialog' = IF r.form = "raise" THEN Dialog("showerror", "test failed", None)
                 ELSE IF shown # None THEN shown ELSE dialog
    /\ UNCHANGED <<current_canvas, plot_frame>>

\* _run_t_test
RunTTestSelected(lib) ==
    /\ IF df = None THEN Warn("load data first")
       ELSE IF cat_sel = {} THEN Warn("select a categorical variable")
       ELSE IF cont_sel = {} THEN Warn("select a continuous variable")
       ELSE LET cat_col == First(cat_listbox, cat_sel)
                cont_col == First(cont_listbox, cont_sel)
            IN  DisplayTextResult("run_t_test", <<cat_col, cont_col>>,
                                  run_t_test(df, cat_col, cont_col, lib), None)
    /\ UNCHANGED <<backend, current_file, cat_listbox, cont_listbox, cat_sel, cont_sel>>

\* _run_chi_square: with fewer than two selected items of the categorical
\* listbox the first two of categorical_cols are taken and announced
RunChiSquare(lib) ==
    /\ IF df = None THEN Warn("load data first")
       ELSE IF Cardinality(cat_sel) < 2
       THEN IF Len(categorical_cols) < 2
            THEN Warn("at least 2 categorical variables")
            ELSE LET col1 == categorical_cols[1]
                     col2 == categorical_cols[2]
                 IN  DisplayTextResult("chi_square_test", <<col1, col2>>,
                                       chi_square_test(df, col1, col2, lib),
                                       Dialog("showinfo", "default variables", None))
       ELSE LET cols == first_two_selected(cat_listbox, cat_sel)
            IN  DisplayTextResult("chi_square_test", cols,
                                  chi_square_test(df, cols[1], cols[2], lib), None)
    /\ UNCHANGED <<backend, current_file, cat_listbox, cont_listbox, cat_sel, cont_sel>>

\* _run_paired_t_test
RunPairedTTest(lib) ==
    /\ IF df = None THEN Warn("load data first")
       ELSE IF Cardinality(cont_sel) < 2 THEN Warn("select two continuous variables")
       ELSE LET cols == first_two_selected(cont_listbox, cont_sel)
            IN  DisplayTextResult("paired_t_test", cols,
                                  paired_t_test(df, cols[1], cols[2], lib), None)
    /\ UNCHANGED <<backend, current_file, cat_listbox, cont_listbox, cat_sel, cont_sel>>

\* _save_plot; choice is what the file dialog and savefig do
SavePlot(choice) ==
    /\ IF current_canvas = None
       THEN dialog' = Dialog("showwarning", "no figure to save", None)
       ELSE IF choice = "cancel" THEN UNCHANGED dialog
       ELSE IF choice = "fails" THEN dialog' = Dialog("showerror", "save failed", None)
       ELSE dialog' = Dialog("showinfo", "saved", current_canvas.figure)
    /\ UNCHANGED <<backend, last, current_file, cat_listbox, cont_listbox, cat_sel,
                   cont_sel, current_canvas, plot_frame>>

(***************************************************************************)
(* The specifications.                                                     *)
(***************************************************************************)
\* classification: loads of generated files, the same file again, a load
\* over a loaded Dataset, and further runs of _detect_column_types
NextClassify ==
    \/ \E file \in ClassifyFiles : df = None /\ LoadData(file)
    \/ df # None /\ LoadData(filepath)
    \/ \E file \in ReloadFiles : df # None /\ LoadData(file)
    \/ DetectColumnTypes

SpecClassify == Init /\ [][NextClassify]_vars

\* the group tests on every small table
NextTests ==
    \/ \E file \in TestFiles : df = None /\ LoadData(file)
    \/ \E c1 \in TestCatCols, c2 \in TestContCols, lib \in LibOutcomes :
          \/ RunTTest(c1, c2, lib)
          \/ MannWhitneyTest(c1, c2, lib)
          \/ OneWayAnova(c1, c2, lib)
          \/ KruskalWallisTest(c1, c2, lib)

SpecTests == Init /\ [][NextTests]_vars

(***************************************************************************)
(* The conclusion a test draws from the p-value its routine returned.  A   *)
(* p-value is a whole number of ten-thousandths: 10 is 0.001, 100 is 0.01, *)
(* 500 is 0.05.                                                            *)
(***************************************************************************)
\* if p_value < 0.05 / else
run_t_test_significance(p) == IF p < 500 THEN "significant" ELSE "not"

paired_t_test_significance(p) == IF p < 500 THEN "significant" ELSE "not"

mann_whitney_test_significance(p) == IF p < 500 THEN "significant" ELSE "not"

kruskal_wallis_test_significance(p) == IF p < 500 THEN "significant" ELSE "not"

\* p < 0.05: the data are not normally distributed
normality_test_significance(p) == IF p < 500 THEN "significant" ELSE "not"

\* if p_value < 0.001 / elif < 0.01 / elif < 0.05 / else
linear_regression_significance(p) ==
    IF p < 10 THEN "extremely"
    ELSE IF p < 100 THEN "highly"
    ELSE IF p < 500 THEN "significant"
    ELSE "not"

\* the four levels with bounds that include the boundary value
one_way_anova_significance_inclusive(p) ==
    IF p <= 10 THEN "extremely"
    ELSE IF p <= 100 THEN "highly"
    ELSE IF p <= 500 THEN "significant"
    ELSE "not"

one_way_anova_significance(p) ==
    IF p < 10 THEN "extremely"
    ELSE IF p < 100 THEN "highly"
    ELSE IF p < 500 THEN "significant"
    ELSE "not"

chi_square_test_significance(p) ==
    IF p < 10 THEN "extremely"
    ELSE IF p < 100 THEN "highly"
    ELSE IF p < 500 THEN "significant"
    ELSE "not"

\* the report of a test whose routine returned p: the conclusion is part
\* of it
Concluded(r, p, level) ==
    IF r.outcome = "ok" THEN Detailed(r, [p |-> p, level |-> level]) ELSE r

\* the tests with the p-value their routine returns
RunTTestP(c1, c2, lib, p) ==
    Invoke("run_t_test", <<c1, c2>>,
           Concluded(run_t_test(df, c1, c2, lib), p, run_t_test_significance(p)))

PairedTTestP(c1, c2, lib, p) ==
    Invoke("paired_t_test", <<c1, c2>>,
           Concluded(paired_t_test(df, c1, c2, lib), p, paired_t_test_significance(p)))

OneWayAnovaP(c1, c2, lib, p) ==
    Invoke("one_way_anova", <<c1, c2>>,
           Concluded(one_way_anova(df, c1, c2, lib), p, one_way_anova_significance(p)))

ChiSquareTestP(c1, c2, lib, p) ==
    Invoke("chi_square_test", <<c1, c2>>,
           Concluded(chi_square_test(df, c1, c2, lib), p, chi_square_test_significance(p)))

MannWhitneyTestP(c1, c2, lib, p) ==
    Invoke("mann_whitney_test", <<c1, c2>>,
           Concluded(mann_whitney_test(df, c1, c2, lib), p,
                     mann_whitney_test_significance(p)))

KruskalWallisTestP(c1, c2, lib, p) ==
    Invoke("kruskal_wallis_test", <<c1, c2>>,
           Concluded(kruskal_wallis_test(df, c1, c2, lib), p,
                     kruskal_wallis_test_significance(p)))

NormalityTestP(c1, lib, p) ==
    Invoke("normality_test", <<c1>>,
           Concluded(normality_test(df, c1, lib), p, normality_test_significance(p)))

LinearRegressionP(c1, c2, lib, p) ==
    Invoke("linear_regression", <<c1, c2>>,
           Concluded(linear_regression(df, c1, c2, lib), p,
                     linear_regression_significance(p)))

\* the p-values about 0.001, 0.01 and 0.05, and 0, 0.009, 0.049, 0.5 and 1
PValues ==
    UNION {(t - PSpread)..(t + PSpread) : t \in {10, 100, 500}}
    \cup {0, 90, 490, 5000, 10000}

\* the hypothesis tests on the study, for every p-value
NextSignificance ==
    \/ df = None /\ LoadData(StudyFile)
    \/ df # None /\ \E p \in PValues, lib \in LibOutcomes :
          \/ RunTTestP("g", "x1", lib, p)
          \/ PairedTTestP("x1", "x2", lib, p)
          \/ OneWayAnovaP("g", "x1", lib, p)
          \/ ChiSquareTestP("g", "h", lib, p)
          \/ MannWhitneyTestP("g", "x1", lib, p)
          \/ KruskalWallisTestP("g", "x1", lib, p)
          \/ NormalityTestP("x1", lib, p)
          \/ LinearRegressionP("x1", "x2", lib, p)

SpecSignificance == Init /\ [][NextSignificance]_vars

(***************************************************************************)
(* The table of strong pairs of get_correlation_analysis.  A coefficient   *)
(* is a whole number of hundredths, or not a number.                       *)
(***************************************************************************)
R(v) == [nan |-> FALSE, v |-> v]
RNaN == [nan |-> TRUE, v |-> 0]

\* comparisons of floats: every comparison with NaN is False
Gt(r, t) == ~r.nan /\ r.v > t
Lt(r, t) == ~r.nan /\ r.v < t

\* abs(r)
Abs(r) == IF r.nan THEN r ELSE R(IF r.v < 0 THEN -r.v ELSE r.v)

\* the label with the bound 0.7 included in strong
strength_at_least(r) ==
    IF ~r.nan /\ r.v >= 70 THEN "strong positive"
    ELSE IF Gt(r, 0) THEN "moderate positive"
    ELSE IF ~r.nan /\ r.v <= -70 THEN "strong negative"
    ELSE "moderate negative"

\* "strong positive" if r > 0.7 else ("moderate positive" if r > 0 else
\* ("strong negative" if r < -0.7 else "moderate negative"))
strength(r) ==
    IF Gt(r, 70) THEN "strong positive"
    ELSE IF Gt(r, 0) THEN "moderate positive"
    ELSE IF Lt(r, -70) THEN "strong negative"
    ELSE "moderate negative"

\* the pairs (i, j), i < j, in the order of the two loops
RECURSIVE PairsFrom(_, _, _)
PairsFrom(n, i, j) ==
    IF i >= n THEN <<>>
    ELSE IF j > n THEN PairsFrom(n, i + 1, i + 2)
    ELSE <<[i |-> i, j |-> j]>> \o PairsFrom(n, i, j + 1)

Pairs(n) == PairsFrom(n, 1, 2)

\* strong_corr: the pairs with abs(r) > 0.5, in the order of the loops
strong_corr(columns, corr) ==
    LET pairs == Pairs(Len(columns))
        keep == [k \in 1..Len(pairs) |-> Gt(Abs(corr[pairs[k]]), 50)]
        kept == Pick(pairs, SelectIdx(Len(pairs), keep, 1))
    IN  [k \in 1..Len(kept) |->
            [var1 |-> columns[kept[k].i], var2 |-> columns[kept[k].j],
             r |-> corr[kept[k]]]]

\* sorted(strong_corr, key=abs(r), reverse=True): a stable sort
sorted_by_abs(list) ==
    LET before(a, b) ==
            \/ Abs(list[a].r).v > Abs(list[b].r).v
            \/ Abs(list[a].r).v = Abs(list[b].r).v /\ a < b
        rank(a) == 1 + Cardinality({b \in DOMAIN list : before(b, a)})
    IN  [k \in 1..Len(list) |-> list[CHOOSE a \in DOMAIN list : rank(a) = k]]

\* the lines of the table: each pair with its coefficient and its label
strong_pairs_table(columns, corr) ==
    LET list == sorted_by_abs(strong_corr(columns, corr))
    IN  [k \in 1..Len(list) |->
            [var1 |-> list[k].var1, var2 |-> list[k].var2, r |-> list[k].r,
             strength |-> strength(list[k].r)]]

\* get_correlation_analysis when corr() returns the matrix corr
get_correlation_analysis_of(d, cont, columns, lib, corr) ==
    LET r == get_correlation_analysis(d, cont, columns, lib)
        cols == IF columns.given THEN columns.names ELSE cont
    IN  IF r.outcome = "ok"
        THEN Detailed(r, [corr |-> corr, table |-> strong_pairs_table(cols, corr)])
        ELSE r

GetCorrelationAnalysisOf(columns, lib, corr) ==
    Invoke("get_correlation_analysis", Names(columns),
           get_correlation_analysis_of(df, continuous_cols, columns, lib, corr))

\* the coefficients about 0.5 and 0.7 of either sign, and 0, 1, -1 and NaN
RValues ==
    {R(s * v) : s \in {-1, 1},
                v \in UNION {(t - RSpread)..(t + RSpread) : t \in {50, 70}}}
    \cup {R(0), R(100), R(-100), RNaN}

\* the coefficients of the second and third pair of a matrix of three
RSome == {R(-71), R(70), R(30)}

\* the matrices corr() may return for the columns: the upper triangle
CorrMatrices(n) ==
    IF n = 2 THEN {[q \in Range(Pairs(2)) |-> r] : r \in RValues}
    ELSE IF n = 3
    THEN {[q \in Range(Pairs(3)) |->
              IF q = [i |-> 1, j |-> 2] THEN r12
              ELSE IF q = [i |-> 1, j |-> 3] THEN r13 ELSE r23] :
            r12 \in RValues, r13 \in RSome, r23 \in RSome}
    ELSE {[q \in Range(Pairs(n)) |-> R(0)]}

\* the correlation report on the study, for every matrix
NextCorrelation ==
    \/ df = None /\ LoadData(StudyFile)
    \/ df # None /\ \E columns \in ListArgs, lib \in LibOutcomes :
          \E corr \in CorrMatrices(Len(IF columns.given THEN columns.names
                                                         ELSE continuous_cols)) :
              GetCorrelationAnalysisOf(columns, lib, corr)

SpecCorrelation == Init /\ [][NextCorrelation]_vars

(***************************************************************************)
(* The elbow curve of plot_kmeans_cluster.                                 *)
(***************************************************************************)
\* plot_kmeans_cluster with n_clusters: the right-hand chart plots one
\* inertia for each k of K_range and marks x = n_clusters
plot_kmeans_cluster_with(d, cont, columns, n_clusters, lib) ==
    LET r == plot_kmeans_cluster(d, cont, columns, lib)
        cols == IF columns.given THEN columns.names ELSE cont
    IN  IF r.outcome = "ok"
        THEN Detailed(r, [n_clusters |-> n_clusters,
                          K_range |-> K_range(Cardinality(complete_rows(d, cols))),
                          axvline |-> <<n_clusters>>])
        ELSE r

PlotKmeansClusterWith(columns, n_clusters, lib) ==
    Invoke("plot_kmeans_cluster", Names(columns),
           plot_kmeans_cluster_with(df, continuous_cols, columns, n_clusters, lib))

\* a table of two numeric columns: the first cells of x1 and the last
\* cells of x2 are missing
ElbowFile(rows, m1, m2) ==
    FileOfColumns(<<"x1", "x2">>,
                  <<[r \in 1..rows |-> IF r <= m1 THEN "" ELSE "1"],
                    [r \in 1..rows |-> IF r > rows - m2 THEN "" ELSE "2"]>>)

ElbowFiles ==
    {ElbowFile(rows, m1, m2) : rows \in 1..ElbowRows, m1 \in 0..1, m2 \in 0..1}

ElbowArgs == {Columns(<<"x1", "x2">>), Columns(<<"x1">>), Columns(<<"x1", "nope">>)}

\* the cluster chart on tables of up to ElbowRows rows
NextElbow ==
    \/ df = None /\ \E file \in ElbowFiles : LoadData(file)
    \/ \E columns \in ElbowArgs, n_clusters \in {2, 3}, lib \in LibOutcomes :
          PlotKmeansClusterWith(columns, n_clusters, lib)

SpecElbow == Init /\ [][NextElbow]_vars

(***************************************************************************)
(* The rows and the labels of plot_dendrogram.                             *)
(***************************************************************************)
\* data.sample(n, random_state=42) without the sampling
sample_none(labels, n) == labels

\* data.sample(n, random_state=42): n rows in the order of a permutation
\* that the seed fixes (here: the rows in the order of a fixed scramble of
\* their index labels)
sample(labels, n) ==
    LET key(x) == (x * 37 + 42) % 101
        rank(x) == Cardinality({y \in Range(labels) : key(y) < key(x)})
    IN  [k \in 1..n |-> CHOOSE x \in Range(labels) : rank(x) = k - 1]

\* plot_dendrogram with the rows it links and the labels it makes
plot_dendrogram_of(d, cont, columns, label_col, lib) ==
    LET r == plot_dendrogram(d, cont, columns, label_col, lib)
        cols == IF columns.given THEN columns.names ELSE cont
        data == RowLabels(d, complete_rows(d, cols))
        original_index == IF Len(data) > max_samples THEN sample(data, max_samples)
                          ELSE data
        labels == IF label_col # NoneCol /\ HasColumn(d, label_col)
                  THEN [i \in 1..Len(original_index) |->
                          [text |-> Column(d, label_col)[IndexOf(d.index, original_index[i])],
                           i |-> i - 1]]
                  ELSE [i \in 1..Len(original_index) |-> [text |-> "sample", i |-> i - 1]]
    IN  IF r.outcome = "ok"
        THEN Detailed(r, [columns |-> cols,
                          rows |-> original_index,
                          labels |-> labels,
                          show_labels |-> Len(original_index) <= 50])
        ELSE r

PlotDendrogramOf(columns, label_col, lib) ==
    Invoke("plot_dendrogram", Names(columns) \o Opt(label_col),
           plot_dendrogram_of(df, continuous_cols, columns, label_col, lib))

\* a table of about max_samples rows: x1 and g without missing cells, the
\* first cells of x2 missing
DendrogramFile(rows, missing) ==
    FileOfColumns(<<"x1", "x2", "g">>,
                  <<[r \in 1..rows |-> "1"],
                    [r \in 1..rows |-> IF r <= missing THEN "" ELSE "2"],
                    [r \in 1..rows |-> IF r % 2 = 0 THEN "a" ELSE "b"]>>)

DendrogramFiles ==
    {DendrogramFile(rows, missing) :
        rows \in (max_samples - DendrogramSpread)..(max_samples + DendrogramSpread),
        missing \in 0..DendrogramSpread}

DendrogramArgs == {Columns(<<"x1", "x2">>), Columns(<<"x1">>)}

\* the dendrogram on tables of about max_samples rows
NextDendrogram ==
    \/ df = None /\ \E file \in DendrogramFiles : LoadData(file)
    \/ df # None /\ \E columns \in DendrogramArgs, label_col \in OptArgs,
                       lib \in LibOutcomes :
          PlotDendrogramOf(columns, label_col, lib)

SpecDendrogram == Init /\ [][NextDendrogram]_vars

\* the paired test on every small table of two numeric columns
NextPaired ==
    \/ \E file \in PairFiles : df = None /\ LoadData(file)
    \/ \E c1 \in PairCols1, c2 \in PairCols2, lib \in LibOutcomes : PairedTTest(c1, c2, lib)

SpecPaired == Init /\ [][NextPaired]_vars

\* the normality test on loaded tables of about LargeSample rows
NextNormality ==
    \/ df = None /\ \E file \in TallFiles : LoadData(file)
    \/ df # None /\ \E c1 \in TallCols, lib \in LibOutcomes : NormalityTest(c1, lib)

SpecNormality == Init /\ [][NextNormality]_vars

\* the facade: every method, before and after a load
NextFacade ==
    \/ \E file \in SessionFiles : LoadData(file)
    \/ \E c1 \in ColArgs, lib \in LibOutcomes :
          \/ GetDescriptiveStats(c1, lib)
          \/ PlotHistogram(c1, lib)
          \/ PlotQq(c1, lib)
          \/ PlotBar(c1, lib)
          \/ PlotPie(c1, lib)
          \/ NormalityTest(c1, lib)
    \/ \E c1 \in ColArgs, c2 \in ColArgs, lib \in LibOutcomes :
          \/ PlotBoxplot(c1, c2, lib)
          \/ RunTTest(c1, c2, lib)
          \/ PlotViolin(c1, c2, lib)
          \/ LinearRegression(c1, c2, lib)
          \/ OneWayAnova(c1, c2, lib)
          \/ ChiSquareTest(c1, c2, lib)
          \/ PairedTTest(c1, c2, lib)
          \/ MannWhitneyTest(c1, c2, lib)
          \/ KruskalWallisTest(c1, c2, lib)
          \/ PlotDistributionComparison(c1, c2, lib)
    \/ \E c1 \in ColArgs, c2 \in OptArgs, lib \in LibOutcomes :
          PlotLine(c1, c2, lib)
    \/ \E c1 \in ColArgs, c2 \in ColArgs, hue \in OptArgs, reg \in BOOLEAN,
          lib \in LibOutcomes :
          PlotScatter(c1, c2, hue, reg, lib)
    \/ \E columns \in ListArgs, lib \in LibOutcomes :
          \/ CorrelationMatrix(columns, lib)
          \/ PlotCorrelationHeatmap(columns, lib)
          \/ GetCorrelationAnalysis(columns, lib)
          \/ GetAllDescriptiveStats(columns, lib)
          \/ GetPcaAnalysis(columns, lib)
          \/ PlotKmeansCluster(columns, lib)
          \/ GetClusterAnalysis(columns, lib)
    \/ \E columns \in ListArgs, lib \in LibOutcomes \cup {"no_writer"} :
          ExportStatisticsToExcel(columns, lib)
    \/ \E lib \in LibOutcomes : MissingValueAnalysis(lib)
    \/ \E columns \in ListArgs, c1 \in OptArgs, lib \in LibOutcomes :
          \/ PlotPca2d(columns, c1, lib)
          \/ PlotPca3d(columns, c1, lib)
          \/ PlotDendrogram(columns, c1, lib)
          \/ PlotPairGrid(columns, c1, lib)
          \/ PlotRadarChart(columns, c1, lib)
    \/ \E c1 \in ColArgs, c2 \in ColArgs, c3 \in ColArgs, lib \in LibOutcomes :
          \/ Plot3dSurface(c1, c2, c3, lib)
          \/ Plot3dSurfacePlotly(c1, c2, c3, lib)
          \/ \E hue \in OptArgs :
                \/ Plot3dScatter(c1, c2, c3, hue, lib)
                \/ Plot3dScatterPlotly(c1, c2, c3, hue, lib)

SpecFacade == Init /\ [][NextFacade]_vars

\* a session of the App
Next ==
    \/ \E choice \in SessionFiles \cup {None} : LoadCsv(choice)
    \/ \E i \in DOMAIN cat_listbox : OnCatSelect(i)
    \/ \E sel \in SUBSET (DOMAIN cont_listbox) : OnContSelect(sel)
    \/ ClearCatSelection
    \/ ClearContSelection
    \/ \E lib \in LibOutcomes : DrawHistogram(lib)
    \/ \E lib \in LibOutcomes : DrawViolin(lib)
    \/ \E choice \in {"cancel", "saved", "fails"} : SavePlot(choice)

Spec == Init /\ [][Next]_vars

(***************************************************************************)
(* Properties of the classification (SpecClassify).                        *)
(***************************************************************************)
\* how often a label occurs in a list
Occurrences(list, x) == Cardinality({k \in DOMAIN list : list[k] = x})

\* the number of distinct non-missing cells of the i-th column of df
DistinctValues(i) == Cardinality(Range(df.cells[i]) \ {NaN})

\* C1: after every successful load_data, continuous_cols and categorical_cols
\* are a strict partition of the columns of df: the two lists are disjoint
\* and without duplicates, every column of df is in exactly one of them, and
\* no other name is in either
C1_RolesPartitionColumns ==
    (last.op = "load_data" /\ last.outcome = "ok") =>
        /\ Range(continuous_cols) \cap Range(categorical_cols) = {}
        /\ Cardinality(Range(continuous_cols)) = Len(continuous_cols)
        /\ Cardinality(Range(categorical_cols)) = Len(categorical_cols)
        /\ Range(continuous_cols) \cup Range(categorical_cols) = Range(df.columns)
        /\ \A i \in 1..NCols(df) :
              /\ Occurrences(df.columns, df.columns[i]) = 1
              /\ Occurrences(continuous_cols \o categorical_cols, df.columns[i]) = 1

\* a load that left columns in both lists
C1_Witness ==
    /\ last.op = "load_data"
    /\ last.outcome = "ok"
    /\ continuous_cols # <<>>
    /\ categorical_cols # <<>>

\* C2: a numeric column is Continuous exactly when it has more than 10
\* distinct non-missing values, and Categorical otherwise (10 distinct
\* values: Categorical; 11: Continuous; 1: Categorical)
C2_NumericThreshold ==
    df # None =>
        \A i \in 1..NCols(df) :
            df.dtypes[i] = "num" =>
                /\ (DistinctValues(i) > 10) <=> (df.columns[i] \in Range(continuous_cols))
                /\ (DistinctValues(i) <= 10) <=> (df.columns[i] \in Range(categorical_cols))

\* a Dataset with a numeric column of exactly 10 distinct values, classified
\* Categorical, beside one of exactly 11, classified Continuous
C2_Witness ==
    /\ df # None
    /\ \E i, j \in 1..NCols(df) :
          /\ df.dtypes[i] = "num" /\ DistinctValues(i) = 10
          /\ df.columns[i] \in Range(categorical_cols)
          /\ df.dtypes[j] = "num" /\ DistinctValues(j) = 11
          /\ df.columns[j] \in Range(continuous_cols)

\* C3: a non-numeric column is Categorical, however many distinct values it
\* has
C3_NonNumericCategorical ==
    df # None =>
        \A i \in 1..NCols(df) :
            df.dtypes[i] # "num" =>
                /\ df.columns[i] \in Range(categorical_cols)
                /\ df.columns[i] \notin Range(continuous_cols)

\* a Categorical text column of more than 10 distinct values
C3_Witness ==
    /\ df # None
    /\ \E i \in 1..NCols(df) :
          /\ df.dtypes[i] # "num"
          /\ DistinctValues(i) > 10
          /\ df.columns[i] \in Range(categorical_cols)

\* C4: any step that leaves the Dataset as it was (a further run of
\* _detect_column_types, a load of the same contents) leaves both lists as
\* they were, entry for entry: nothing accumulates
C4_ClassificationIdempotent ==
    [][(df # None /\ df' = df) =>
          /\ continuous_cols' = continuous_cols
          /\ categorical_cols' = categorical_cols]_vars

\* _detect_column_types has run again on a Dataset with columns of both roles
C4_Witness ==
    /\ last.op = "_detect_column_types"
    /\ continuous_cols # <<>>
    /\ categorical_cols # <<>>

(***************************************************************************)
(* Properties of a session of the App (Spec).                              *)
(***************************************************************************)
\* C5: a load replaces the Dataset and the roles wholesale: df is the table
\* of the file last loaded, the two lists hold its columns and no other,
\* and the two listboxes show exactly these lists
C5_LoadReplacesWholesale ==
    df # None =>
        /\ df = CleanedFrame(filepath)
        /\ Range(continuous_cols) \cup Range(categorical_cols) = Range(df.columns)
        /\ Len(continuous_cols) + Len(categorical_cols) = NCols(df)
        /\ cat_listbox = categorical_cols
        /\ cont_listbox = continuous_cols
        /\ Range(cat_listbox) \cup Range(cont_listbox) = Range(CleanedFrame(current_file).columns)

\* the survey was loaded over the study, of which a chart had been drawn:
\* no continuous variable is left
C5_Witness ==
    /\ filepath = SurveyFile
    /\ current_canvas # None
    /\ current_canvas.figure.data = StudyFile
    /\ cont_listbox = <<>>
    /\ cat_listbox = <<"g", "y">>

\* C6: the chart that is current (the one _save_plot exports) and every
\* chart displayed in the plot frame were drawn from the Dataset now
\* loaded: a load leaves no chart of the previous Dataset
C6_LoadInvalidatesChart ==
    /\ current_canvas # None => current_canvas.figure.data = filepath
    /\ \A k \in DOMAIN plot_frame : plot_frame[k].figure.data = filepath

(***************************************************************************)
(* Properties of the facade (SpecFacade).                                  *)
(***************************************************************************)
\* the methods that return a text report; the others return a figure, a
\* matrix or a file name
TextReportOps ==
    {"get_descriptive_stats", "run_t_test", "get_correlation_analysis",
     "linear_regression", "one_way_anova", "chi_square_test", "normality_test",
     "paired_t_test", "mann_whitney_test", "kruskal_wallis_test",
     "get_all_descriptive_stats", "missing_value_analysis",
     "export_statistics_to_excel", "get_pca_analysis", "get_cluster_analysis"}

\* a call of a method other than load_data
IsOperation == last.op \notin {"none", "load_data", "_detect_column_types"}

\* C7 as stated: before any load every operation is rejected by its first
\* check, before any column is looked at, in one form for all operations
C7_NoDatasetSameForm ==
    [][(df = None /\ last'.op \notin {"none", "load_data"}) =>
          /\ last'.outcome = "no_data"
          /\ last'.trace = <<"df is None">>
          /\ (last.outcome = "no_data" => last'.form = last.form)]_vars

\* C7: before any load every operation is rejected by its first check,
\* before any column is looked at; a method that returns a text report
\* returns the message, every other method raises it
C7_NoDatasetFirst ==
    (df = None /\ IsOperation) =>
        /\ last.outcome = "no_data"
        /\ last.trace = <<"df is None">>
        /\ (last.op \in TextReportOps) => last.form = "return"
        /\ (last.op \notin TextReportOps) => last.form = "raise"

\* correlation_matrix, called with columns before any load, has raised
C7_Witness ==
    /\ df = None
    /\ last.op = "correlation_matrix"
    /\ last.cols = <<"x1", "x2">>
    /\ last.outcome = "no_data"
    /\ last.form = "raise"

\* C8: an operation given a column that the loaded Dataset does not have
\* fails with the column-not-found error, after its two checks and before
\* any statistical or plotting routine
C8_ColumnNotFoundFirst ==
    (df # None /\ IsOperation /\ \E c \in Range(last.cols) : ~HasColumn(df, c)) =>
        /\ last.outcome = "column_not_found"
        /\ last.trace = <<"df is None", "in df.columns">>

(***************************************************************************)
(* Properties of the group tests (SpecTests).                              *)
(***************************************************************************)
\* the last call named two columns of the loaded Dataset
OnColumns ==
    /\ df # None
    /\ Len(last.cols) = 2
    /\ HasColumn(df, last.cols[1])
    /\ HasColumn(df, last.cols[2])

\* the distinct non-missing values of the grouping column of the last call
GroupValues == Range(Column(df, last.cols[1])) \ {NaN}

\* those with a non-missing cell of the tested column
NonEmptyGroups ==
    {v \in GroupValues :
        \E r \in 1..NRows(df) :
            Column(df, last.cols[1])[r] = v /\ Column(df, last.cols[2])[r] # NaN}

\* C9: the two-group tests reach the statistical routine only when the
\* grouping column has exactly 2 distinct non-missing values; with any
\* other number they fail with the invalid-group-count error, which states
\* that number
C9_TwoGroupCount ==
    (last.op \in {"run_t_test", "mann_whitney_test"} /\ OnColumns) =>
        /\ (\E k \in DOMAIN last.trace :
                last.trace[k] \in {"stats.ttest_ind", "stats.mannwhitneyu"})
              => Cardinality(GroupValues) = 2
        /\ Cardinality(GroupValues) # 2 =>
              /\ last.outcome = "invalid_group_count"
              /\ last.count = Cardinality(GroupValues)

\* C10: the multi-group tests call the statistical routine exactly when at
\* least 2 groups are non-empty once the missing values of the tested
\* column are dropped; otherwise they fail with the insufficient-groups
\* error; the group count of the report is the number of non-empty groups
C10_MultiGroupCount ==
    (last.op \in {"one_way_anova", "kruskal_wallis_test"} /\ OnColumns) =>
        /\ (\E k \in DOMAIN last.trace :
                last.trace[k] \in {"stats.f_oneway", "stats.kruskal"})
              <=> Cardinality(NonEmptyGroups) >= 2
        /\ Cardinality(NonEmptyGroups) < 2 => last.outcome = "insufficient_groups"
        /\ last.outcome = "ok" => last.count = Cardinality(NonEmptyGroups)

\* an analysis of variance of three groups of which one is empty: the report
\* counts two
C10_Witness ==
    /\ last.op = "one_way_anova"
    /\ OnColumns
    /\ last.outcome = "ok"
    /\ Cardinality(GroupValues) = 3
    /\ last.count = 2

(***************************************************************************)
(* Properties of the paired test (SpecPaired).                             *)
(***************************************************************************)
\* the index labels of the rows of df in which the two columns of the last
\* call are both present, in the order of the table
BothPresent ==
    LET c1 == IndexOf(df.columns, last.cols[1])
        c2 == IndexOf(df.columns, last.cols[2])
        keep == [r \in 1..Len(df.index) |-> df.cells[c1][r] # NaN /\ df.cells[c2][r] # NaN]
    IN  Pick(df.index, SelectIdx(Len(df.index), keep, 1))

\* C11: paired_t_test hands stats.ttest_rel exactly the rows in which both
\* columns are present, the same rows for both samples, and the sample size
\* of its report is the number of these rows
C11_PairedAlignedRows ==
    (last.op = "paired_t_test" /\ OnColumns) =>
        /\ "stats.ttest_rel" \in Range(last.trace)
        /\ last.detail.data1 = BothPresent
        /\ last.detail.data2 = BothPresent
        /\ last.outcome = "ok" => last.count = Len(BothPresent)

\* a report on a table of which each column has a missing cell in another
\* row: the sample size is smaller than the row count
C11_Witness ==
    /\ last.op = "paired_t_test"
    /\ last.cols = <<"x", "y">>
    /\ OnColumns
    /\ last.outcome = "ok"
    /\ \E r \in 1..NRows(df) : Column(df, "x")[r] = NaN /\ Column(df, "y")[r] # NaN
    /\ \E r \in 1..NRows(df) : Column(df, "x")[r] # NaN /\ Column(df, "y")[r] = NaN
    /\ last.count >= 1
    /\ last.count < NRows(df)

(***************************************************************************)
(* Properties of the multivariate methods (SpecFacade).                    *)
(***************************************************************************)
\* the methods on a list of variables that take a hue or label column too
HueOps == {"plot_pca_2d", "plot_pca_3d", "plot_dendrogram"}

\* the correlation, PCA and clustering methods
VariableOps ==
    {"correlation_matrix", "get_correlation_analysis", "plot_correlation_heatmap",
     "plot_pca_2d", "plot_pca_3d", "get_pca_analysis", "plot_kmeans_cluster",
     "get_cluster_analysis", "plot_dendrogram"}

\* the routines of pandas, scikit-learn and scipy that compute on the data
NumericRoutines ==
    {"df.corr", "sns.heatmap", "StandardScaler", "PCA", "KMeans", "linkage",
     "dendrogram"}

\* every column the last call names is a column of df
NamedColumnsExist == df # None /\ \A c \in Range(last.cols) : HasColumn(df, c)

\* the variables the last call works on: the list it was given without the
\* hue or label column (the one that is not numeric), or continuous_cols
\* when no list was given
VariablesOfCall ==
    LET n == Len(last.cols)
        hue == /\ last.op \in HueOps
               /\ n > 0
               /\ ~is_numeric_dtype(df, last.cols[n])
        given == IF hue THEN SubSeq(last.cols, 1, n - 1) ELSE last.cols
    IN  IF given = <<>> THEN continuous_cols ELSE given

\* C12: every correlation, PCA and clustering method fails with the
\* insufficient-variables error when it has fewer than 2 variables
\* (plot_pca_3d: fewer than 3), before any numeric routine is called
C12_InsufficientVariables ==
    (last.op \in VariableOps /\ NamedColumnsExist
        /\ Len(VariablesOfCall) < (IF last.op = "plot_pca_3d" THEN 3 ELSE 2)) =>
        /\ last.outcome = "insufficient_variables"
        /\ Range(last.trace) \cap NumericRoutines = {}

(***************************************************************************)
(* Properties of the normality test (SpecNormality).                       *)
(***************************************************************************)
\* the number of non-missing cells of the column of the last call
SampleSize ==
    LET c == IndexOf(df.columns, last.cols[1])
    IN  Cardinality({r \in 1..Len(df.index) : df.cells[c][r] # NaN})

\* how often a routine was called in the last call
Calls(name) == Cardinality({k \in DOMAIN last.trace : last.trace[k] = name})

\* C13: normality_test chooses its procedure from the number n of
\* non-missing values alone: Kolmogorov-Smirnov when n > 5000, Shapiro-Wilk
\* when n <= 5000 (5000 included), and exactly one of the two is called
C13_ProcedureBySampleSize ==
    (last.op = "normality_test" /\ df # None /\ HasColumn(df, last.cols[1])) =>
        /\ SampleSize > 5000 => Calls("stats.kstest") = 1 /\ Calls("stats.shapiro") = 0
        /\ SampleSize <= 5000 => Calls("stats.kstest") = 0 /\ Calls("stats.shapiro") = 1
        /\ last.outcome = "ok" => last.count = SampleSize

\* a column of 5002 rows with 2 missing cells, n = 5000: Shapiro-Wilk
C13_Witness ==
    /\ last.op = "normality_test"
    /\ last.cols = <<"y">>
    /\ last.outcome = "ok"
    /\ NRows(df) = 5002
    /\ SampleSize = 5000
    /\ Calls("stats.shapiro") = 1

\* a column of 5001 non-missing cells: Kolmogorov-Smirnov
C13_WitnessLarge ==
    /\ last.op = "normality_test"
    /\ last.cols = <<"y">>
    /\ last.outcome = "ok"
    /\ SampleSize = 5001
    /\ Calls("stats.kstest") = 1

(***************************************************************************)
(* Properties of the conclusions (SpecSignificance).                       *)
(***************************************************************************)
\* the hypothesis tests
HypothesisTests ==
    {"run_t_test", "paired_t_test", "one_way_anova", "chi_square_test",
     "mann_whitney_test", "kruskal_wallis_test", "normality_test",
     "linear_regression"}

\* the tests that label four levels
FourLevelTests == {"linear_regression", "one_way_anova", "chi_square_test"}

\* the four-level policy: p < 0.001, p < 0.01, p < 0.05, otherwise
FourLevelPolicy(p) ==
    CASE p < 10 -> "extremely"
      [] p >= 10 /\ p < 100 -> "highly"
      [] p >= 100 /\ p < 500 -> "significant"
      [] p >= 500 -> "not"

\* the last call is a report with a conclusion
HasConclusion == last.outcome = "ok" /\ last.detail # <<>> /\ "level" \in DOMAIN last.detail

\* C14: every hypothesis test applies the four-level policy: the report of
\* each of the eight tests gives a p-value the level of the policy
C14_SamePolicyEverywhere ==
    (last.op \in HypothesisTests /\ HasConclusion) =>
        last.detail.level = FourLevelPolicy(last.detail.p)

\* C15: the three tests that label four levels give p = 0.0009 extremely
\* significant, 0.009 highly significant, 0.049 significant and 0.5 not
\* significant; 0.001, 0.01 and 0.05 fall in the next weaker level; the
\* level depends on p alone and is the same in the three tests
C15_FourLevelsStrictBounds ==
    (last.op \in FourLevelTests /\ HasConclusion) =>
        /\ last.detail.p = 9 => last.detail.level = "extremely"
        /\ last.detail.p = 10 => last.detail.level = "highly"
        /\ last.detail.p = 90 => last.detail.level = "highly"
        /\ last.detail.p = 100 => last.detail.level = "significant"
        /\ last.detail.p = 490 => last.detail.level = "significant"
        /\ last.detail.p = 500 => last.detail.level = "not"
        /\ last.detail.p = 5000 => last.detail.level = "not"
        /\ last.detail.level = FourLevelPolicy(last.detail.p)
        /\ last.detail.level = linear_regression_significance(last.detail.p)
        /\ last.detail.level = one_way_anova_significance(last.detail.p)
        /\ last.detail.level = chi_square_test_significance(last.detail.p)

\* an analysis of variance with p = 0.01 exactly: significant, not highly
C15_Witness ==
    /\ last.op = "one_way_anova"
    /\ HasConclusion
    /\ last.detail.p = 100
    /\ last.detail.level = "significant"

(***************************************************************************)
(* Properties of the correlation report (SpecCorrelation).                 *)
(***************************************************************************)
\* the columns the last correlation report is about
ReportColumns == IF last.cols = <<>> THEN continuous_cols ELSE last.cols

\* the lines of the table of the last report about the pair (i, j)
LinesOf(i, j) ==
    {k \in DOMAIN last.detail.table :
        /\ last.detail.table[k].var1 = ReportColumns[i]
        /\ last.detail.table[k].var2 = ReportColumns[j]}

\* C16: get_correlation_analysis lists a pair exactly when |r| > 0.5; the
\* pair is labelled strong when |r| > 0.7 and moderate when
\* 0.5 < |r| <= 0.7 (r = 0.7 and r = -0.7: moderate), with the sign of r; a
\* pair with |r| <= 0.5 or with r not a number is not listed
C16_StrongPairs ==
    (last.op = "get_correlation_analysis" /\ last.outcome = "ok") =>
        \A i, j \in DOMAIN ReportColumns :
            i < j =>
                LET r == last.detail.corr[[i |-> i, j |-> j]]
                    lines == LinesOf(i, j)
                IN  /\ (r.nan \/ (r.v <= 50 /\ r.v >= -50)) => lines = {}
                    /\ (~r.nan /\ (r.v > 50 \/ r.v < -50)) => Cardinality(lines) = 1
                    /\ \A k \in lines :
                          /\ last.detail.table[k].r = r
                          /\ r.v > 70 => last.detail.table[k].strength = "strong positive"
                          /\ (r.v > 50 /\ r.v <= 70)
                                => last.detail.table[k].strength = "moderate positive"
                          /\ r.v < -70 => last.detail.table[k].strength = "strong negative"
                          /\ (r.v < -50 /\ r.v >= -70)
                                => last.detail.table[k].strength = "moderate negative"

\* a report on three variables: r = -0.71 is listed first as strong negative,
\* r = 0.7 second as moderate positive, and r = 0.5 is not listed
C16_Witness ==
    /\ last.op = "get_correlation_analysis"
    /\ last.outcome = "ok"
    /\ last.cols = <<"x1", "x2", "x3">>
    /\ last.detail.corr[[i |-> 1, j |-> 2]] = R(50)
    /\ Len(last.detail.table) = 2
    /\ last.detail.table[1].strength = "strong negative"
    /\ last.detail.table[2].r = R(70)
    /\ last.detail.table[2].strength = "moderate positive"

(***************************************************************************)
(* Properties of the cluster chart (SpecElbow).                            *)
(***************************************************************************)
\* the number of rows of df in which every column of the last call is
\* present
CompleteRows ==
    Cardinality({r \in 1..Len(df.index) :
                    \A c \in Range(last.cols) :
                        df.cells[IndexOf(df.columns, c)][r] # NaN})

\* the smaller of two numbers
Min(a, b) == IF a < b THEN a ELSE b

\* C17: the elbow curve of plot_kmeans_cluster is computed for
\* k = 1..min(9, n_samples - 1), in increasing order, where n_samples is the
\* number of rows without a missing value, whatever n_clusters is; one
\* model is fitted for each k, and the only k the chart marks is the
\* n_clusters of the caller
C17_ElbowRange ==
    (last.op = "plot_kmeans_cluster" /\ last.outcome = "ok") =>
        /\ Len(last.detail.K_range) = (IF CompleteRows >= 2 THEN Min(9, CompleteRows - 1) ELSE 0)
        /\ \A k \in DOMAIN last.detail.K_range : last.detail.K_range[k] = k
        /\ last.count = Len(last.detail.K_range)
        /\ Cardinality({i \in DOMAIN last.trace : last.trace[i] = "KMeans"})
              = 1 + Len(last.detail.K_range)
        /\ last.detail.axvline = <<last.detail.n_clusters>>

\* a chart of 11 complete rows out of 12, with n_clusters = 2: the curve
\* runs over k = 1..9
C17_Witness ==
    /\ last.op = "plot_kmeans_cluster"
    /\ last.outcome = "ok"
    /\ NRows(df) = 12
    /\ CompleteRows = 11
    /\ last.detail.n_clusters = 2
    /\ last.detail.K_range = <<1, 2, 3, 4, 5, 6, 7, 8, 9>>

\* a chart of 5 complete rows: the curve runs over k = 1..4
C17_WitnessSmall ==
    /\ last.op = "plot_kmeans_cluster"
    /\ last.outcome = "ok"
    /\ CompleteRows = 5
    /\ last.detail.K_range = <<1, 2, 3, 4>>

(***************************************************************************)
(* Properties of the dendrogram (SpecDendrogram).                          *)
(***************************************************************************)
\* the index labels of the rows of a table in which every one of the
\* columns is present, in the order of the table
CompleteLabels(d, columns) ==
    LET keep == [r \in 1..Len(d.index) |->
                    \A c \in Range(columns) : d.cells[IndexOf(d.columns, c)][r] # NaN]
    IN  Pick(d.index, SelectIdx(Len(d.index), keep, 1))

\* C18: when more than 50 rows are left once the rows with a missing value
\* are dropped, plot_dendrogram links exactly 50 of them, the same on every
\* call; otherwise it links them all; it never links more than 50 rows;
\* the labels are shown only when at most 50 rows are linked, and there is
\* exactly one label for each row linked
C18_DendrogramRows ==
    [][(last'.op = "plot_dendrogram" /\ last'.outcome = "ok") =>
          LET complete == CompleteLabels(df', last'.detail.columns)
              rows == last'.detail.rows
          IN  /\ Len(complete) > 50 =>
                    /\ Len(rows) = 50
                    /\ Cardinality(Range(rows)) = 50
                    /\ Range(rows) \subseteq Range(complete)
              /\ Len(complete) <= 50 => rows = complete
              /\ Len(rows) <= 50
              /\ last'.count = Len(rows)
              /\ last'.detail.show_labels => Len(rows) <= 50
              /\ Len(last'.detail.labels) = Len(rows)
              /\ (/\ last.op = "plot_dendrogram"
                  /\ last.outcome = "ok"
                  /\ df' = df
                  /\ last.detail.columns = last'.detail.columns)
                    => last.detail.rows = rows]_vars

\* a dendrogram of a table of 52 rows of which 51 are complete: 50 rows are
\* linked and labelled by the column g
C18_Witness ==
    /\ last.op = "plot_dendrogram"
    /\ last.outcome = "ok"
    /\ last.cols = <<"x1", "x2", "g">>
    /\ NRows(df) = 52
    /\ Len(CompleteLabels(df, last.detail.columns)) = 51
    /\ Len(last.detail.rows) = 50
    /\ Len(last.detail.labels) = 50
    /\ "data.sample" \in Range(last.trace)

(***************************************************************************)
(* Properties of every method (SpecFacade).                                *)
(***************************************************************************)
\* C19: a call of any method other than load_data, whether it returns a
\* result, returns an error or raises, leaves df, continuous_cols and
\* categorical_cols (and filepath) as they were
C19_OperationsKeepSession ==
    [][(last'.op \notin {"none", "load_data", "_detect_column_types"}) =>
          /\ df' = df
          /\ continuous_cols' = continuous_cols
          /\ categorical_cols' = categorical_cols
          /\ filepath' = filepath]_vars

\* plot_pca_3d has raised on the loaded study, plot_scatter has returned
\* before it or after it: the Dataset and the roles are those of the load
C19_Witness ==
    /\ last.op = "plot_pca_3d"
    /\ last.form = "raise"
    /\ df = CleanedFrame(StudyFile)
    /\ continuous_cols = <<"x1", "x2", "x3">>
    /\ categorical_cols = <<"g", "h">>

\* C20: no method lets the exception of a library routine reach its
\* caller as it was raised: the failure is caught and wrapped
C20_LibraryFailuresWrapped ==
    (IsOperation /\ df # None /\ last.trace # <<>>) =>
        ~(last.outcome = "exception" /\ last.trace[Len(last.trace)] # "df[]")

(***************************************************************************)
(* Further properties of the load (SpecClassify).                          *)
(***************************************************************************)
\* C21: after a successful load no column of df has only missing values
\* and no row of df has only missing values, and the two lists hold
\* columns of df only: a column of the file that is entirely missing is in
\* neither list
C21_NoEmptyColumnOrRow ==
    df # None =>
        /\ \A c \in 1..NCols(df) : \E r \in 1..NRows(df) : df.cells[c][r] # NaN
        /\ \A r \in 1..NRows(df) : \E c \in 1..NCols(df) : df.cells[c][r] # NaN
        /\ \A c \in 1..NCols(df) : Len(df.cells[c]) = NRows(df)
        /\ \A name \in Range(continuous_cols) \cup Range(categorical_cols) :
              /\ HasColumn(df, name)
              /\ \E r \in 1..NRows(df) : Column(df, name)[r] # NaN

\* a file of two columns and two rows of which one column is entirely
\* missing and, once it is dropped, one row: one column and one row are left
C21_Witness ==
    /\ df # None
    /\ last.op = "load_data"
    /\ Len(filepath.lines) = 4
    /\ Len(filepath.lines[1]) = 2
    /\ NCols(df) = 1
    /\ NRows(df) = 1
    /\ Len(continuous_cols) + Len(categorical_cols) = 1

\* C22: _detect_column_types returns for every Dataset a load can leave (a
\* load raises in pd.read_csv only, never in the classification), and for
\* a Dataset without columns both lists are empty
C22_ClassifiesEveryDataset ==
    /\ last.op = "_detect_column_types" => last.form = "return"
    /\ (last.op = "load_data" /\ last.form = "raise") =>
          "_detect_column_types" \notin Range(last.trace)
    /\ (df # None /\ NCols(df) = 0) =>
          /\ continuous_cols = <<>>
          /\ categorical_cols = <<>>

\* the classification has run on a Dataset whose columns were all dropped
\* (a file of a header and no values), after a Dataset that had columns
C22_Witness ==
    /\ df # None
    /\ NCols(df) = 0
    /\ Len(filepath.lines) >= 1
    /\ Len(filepath.lines[1]) >= 1
    /\ last.op = "_detect_column_types"
    /\ last.form = "return"
    /\ continuous_cols = <<>>
    /\ categorical_cols = <<>>

(***************************************************************************)
(* The export on small tables (SpecExport).                                *)
(***************************************************************************)
\* every table of a numeric column x and a text column g with missing
\* cells, and one table whose column x is Continuous
ExportFiles ==
    UNION {FilesOf(<<"x", "g">>, <<{"", "1", "2"}, {"", "a"}>>, n) : n \in 0..(MaxRows - 1)}
    \cup {FileOfColumns(<<"x", "g">>,
                        <<WideColumn("num", CardinalityThreshold + 1, ""),
                          WideColumn("str", 2, "")>>)}

ExportArgs ==
    {DefaultColumns, Columns(<<>>), Columns(<<"x">>), Columns(<<"g">>),
     Columns(<<"g", "x">>), Columns(<<"x", "g">>), Columns(<<"x", "nope">>)}

NextExport ==
    \/ \E file \in ExportFiles : df = None /\ LoadData(file)
    \/ \E columns \in ExportArgs, lib \in LibOutcomes \cup {"no_writer"} :
          ExportStatisticsToExcel(columns, lib)

SpecExport == Init /\ [][NextExport]_vars

\* the columns an export call selects
Selected == IF last.cols = <<>> THEN continuous_cols ELSE last.cols

\* C23: an export that found the spreadsheet writer wrote a workbook of
\* exactly three sheets (descriptive statistics, correlation matrix, raw
\* data) whose raw-data sheet has exactly the selected columns, in order,
\* one row for each row of the Dataset and the Dataset's values; an export
\* that did not find the writer wrote the descriptive statistics alone, as
\* CSV starting with the UTF-8 byte-order mark
C23_ExportedFile ==
    last.op = "export_statistics_to_excel" =>
        /\ last.outcome = "ok" =>
              /\ last.detail.format = "xlsx"
              /\ Len(last.detail.sheets) = 3
              /\ last.detail.sheets[1].name = "descriptive statistics"
              /\ last.detail.sheets[2].name = "correlation matrix"
              /\ last.detail.sheets[3].name = "raw data"
              /\ LET raw == last.detail.sheets[3]
                 IN  /\ raw.header = Selected
                     /\ Len(raw.rows) = NRows(df)
                     /\ \A r \in 1..NRows(df) :
                           /\ Len(raw.rows[r]) = Len(Selected)
                           /\ \A k \in 1..Len(Selected) :
                                 read_excel_cell(raw.rows[r][k])
                                    = Column(df, Selected[k])[r]
        /\ last.outcome = "ok_csv" =>
              /\ last.detail.format = "csv"
              /\ Len(last.detail.sheets) = 1
              /\ last.detail.sheets[1].name = "descriptive statistics"
              /\ last.detail.sheets[1].index = described(df, Selected)
              /\ last.detail.head = <<239, 187, 191>>
        /\ "pd.ExcelWriter" \in Range(last.trace) =>
              (last.outcome = "ok_csv" <=> "to_csv" \in Range(last.trace))

\* a workbook written for the selection g, x of a Dataset of columns x, g
\* with a missing cell in a selected column
C23_Witness ==
    /\ last.op = "export_statistics_to_excel"
    /\ last.outcome = "ok"
    /\ last.cols = <<"g", "x">>
    /\ df.columns = <<"x", "g">>
    /\ NRows(df) = 2
    /\ \E r \in 1..NRows(df) : Column(df, "g")[r] = NaN

\* the CSV written when the spreadsheet writer is missing
C23_WitnessCsv ==
    /\ last.op = "export_statistics_to_excel"
    /\ last.outcome = "ok_csv"
    /\ last.detail.head = <<239, 187, 191>>

(***************************************************************************)
(* The selection handlers of the GUI (SpecSelect).                         *)
(***************************************************************************)
\* three continuous columns and three categorical ones
PanelFile ==
    FileOfColumns(<<"x1", "x2", "x3", "g", "h", "k">>,
                  <<WideColumn("num", CardinalityThreshold + 1, "repeat"),
                    WideColumn("num", CardinalityThreshold + 1, "float"),
                    WideColumn("num", CardinalityThreshold + 1, ""),
                    WideColumn("str", 2, "repeat"),
                    WideColumn("num", 2, "repeat"),
                    WideColumn("str", 3, "")>>)

SelectFiles == {PanelFile, SurveyFile, HeaderOnlyFile, UnreadableFile}

NextSelect ==
    \/ \E choice \in SelectFiles \cup {None} : LoadCsv(choice)
    \/ \E i \in DOMAIN cat_listbox : OnCatSelect(i)
    \/ \E sel \in SUBSET (DOMAIN cont_listbox) : OnContSelect(sel)
    \/ ClearCatSelection
    \/ ClearContSelection
    \/ \E lib \in LibOutcomes : RunTTestSelected(lib)
    \/ \E lib \in LibOutcomes : RunChiSquare(lib)
    \/ \E lib \in LibOutcomes : RunPairedTTest(lib)
    \/ \E lib \in LibOutcomes : DrawHistogram(lib)

SpecSelect == Init /\ [][NextSelect]_vars

\* a handler has just called this method of the backend
Called(op) == last' # last /\ last'.op = op

\* cols are the two selected items that come first in the listbox
FirstTwoOf(cols, items, sel) ==
    \E i, j \in sel :
        /\ i < j
        /\ \A m \in sel : m = i \/ m >= j
        /\ cols = <<items[i], items[j]>>

C24_WitnessChiSquare ==
    /\ last.op = "chi_square_test"
    /\ cat_listbox = <<"g", "h", "k">>
    /\ cat_sel = {3}
    /\ last.cols = <<"g", "h">>

(***************************************************************************)
(* The group lines of the multi-group reports (SpecTests).                 *)
(***************************************************************************)
\* the index labels of the rows of df that belong to a group of the last
\* call and have a value of its tested column
RowsOfGroup(value) ==
    LET c1 == IndexOf(df.columns, last.cols[1])
        c2 == IndexOf(df.columns, last.cols[2])
        keep == [r \in 1..Len(df.index) |->
                    df.cells[c1][r] = value /\ df.cells[c2][r] # NaN]
    IN  Pick(df.index, SelectIdx(Len(df.index), keep, 1))

\* C25: each per-group line of an analysis of variance or a Kruskal-Wallis
\* report names the group whose data it summarises, also when a group that
\* is empty once the missing values are dropped was filtered out
C25_LinesNameTheirGroup ==
    (last.op \in {"one_way_anova", "kruskal_wallis_test"} /\ last.outcome = "ok") =>
        \A k \in DOMAIN last.detail :
            /\ last.detail[k].rows = RowsOfGroup(last.detail[k].name)
            /\ last.detail[k].n = Len(RowsOfGroup(last.detail[k].name))

(***************************************************************************)
(* Loads that fail (SpecSelect).                                           *)
(***************************************************************************)
\* the two lists divide the columns of df between them
Partition ==
    df # None =>
        /\ Range(continuous_cols) \cup Range(categorical_cols) = Range(df.columns)
        /\ Range(continuous_cols) \cap Range(categorical_cols) = {}
        /\ Len(continuous_cols) + Len(categorical_cols) = NCols(df)

\* C26: a load that raises leaves df, continuous_cols and categorical_cols
\* as they were, and the GUI leaves its two listboxes and current_file as
\* they were; the two lists divide the columns of df after every load
C26_FailedLoadKeepsSession ==
    [][/\ (last' # last /\ last'.op = "load_data" /\ last'.form = "raise") =>
             /\ df' = df
             /\ continuous_cols' = continuous_cols
             /\ categorical_cols' = categorical_cols
             /\ cat_listbox' = cat_listbox
             /\ cont_listbox' = cont_listbox
             /\ current_file' = current_file
       /\ Partition'
       /\ (df = None) = (current_file = None)]_vars

\* a load has failed over a loaded Dataset, whose columns are still listed
C26_Witness ==
    /\ last.op = "load_data"
    /\ last.form = "raise"
    /\ dialog.kind = "showerror"
    /\ df # None
    /\ current_file = filepath
    /\ cat_listbox = categorical_cols
    /\ Len(cat_listbox) = 3
    /\ Len(cont_listbox) = 3

(***************************************************************************)
(* The columns the handlers pass to the backend (SpecSelect).              *)
(***************************************************************************)
\* the listboxes hold the two lists of the backend, and what is selected
\* is an item of its listbox
ListboxesCurrent ==
    /\ cat_listbox = categorical_cols
    /\ cont_listbox = continuous_cols
    /\ cat_sel \subseteq DOMAIN cat_listbox
    /\ cont_sel \subseteq DOMAIN cont_listbox

\* C27: every column a handler passes to the backend is a column of the
\* loaded Dataset; the two listboxes hold categorical_cols and
\* continuous_cols of the backend at all times, and a load that replaces
\* the Dataset leaves nothing selected
C27_HandlersPassCurrentColumns ==
    [][/\ (last' # last /\ last'.op \notin {"none", "load_data"}) =>
             /\ df # None
             /\ last'.cols # <<>>
             /\ \A c \in Range(last'.cols) : HasColumn(df, c)
       /\ (last' # last /\ last'.op = "load_data" /\ last'.form = "return") =>
             /\ cat_sel' = {}
             /\ cont_sel' = {}
       /\ ListboxesCurrent
       /\ ListboxesCurrent']_vars

\* chi-square has run on the two columns of the survey file, the loaded
\* Dataset, and the continuous listbox, which the survey leaves empty, has
\* nothing selected
C27_Witness ==
    /\ last.op = "chi_square_test"
    /\ last.cols = <<"g", "y">>
    /\ df.columns = <<"g", "y">>
    /\ cat_listbox = <<"g", "y">>
    /\ cont_listbox = <<>>
    /\ cont_sel = {}

(***************************************************************************)
(* Empty groups in the two-group tests (SpecTests).                        *)
(***************************************************************************)
\* C28: when the grouping column has exactly 2 distinct values and one of
\* the two groups has no value of the tested column, run_t_test and
\* mann_whitney_test return an error message and do not call the
\* statistical routine
C28_NoEmptyGroupTested ==
    (/\ last.op \in {"run_t_test", "mann_whitney_test"}
     /\ OnColumns
     /\ Cardinality(GroupValues) = 2
     /\ Cardinality(NonEmptyGroups) < 2) =>
        /\ last.outcome \notin {"ok", "none"}
        /\ last.form = "return"
        /\ "stats.ttest_ind" \notin Range(last.trace)
        /\ "stats.mannwhitneyu" \notin Range(last.trace)

(***************************************************************************)
(* The branch of plot_bar and the role of the column (SpecBar).            *)
(***************************************************************************)
BarCols == {"g", "y", "nope"}

\* plot_bar on the columns of every table around the threshold
NextBar ==
    \/ \E file \in WideFiles \cup {HeaderOnlyFile} : df = None /\ LoadData(file)
    \/ \E column \in BarCols, lib \in LibOutcomes : PlotBar(column, lib)

SpecBar == Init /\ [][NextBar]_vars

\* C29: plot_bar takes its histogram branch exactly for the columns of
\* continuous_cols and its bar-count branch exactly for the columns of
\* categorical_cols
C29_BarBranchIsRole ==
    (last.op = "plot_bar" /\ df # None /\ HasColumn(df, last.cols[1])) =>
        /\ "ax.hist" \in Range(last.trace) <=> last.cols[1] \in Range(continuous_cols)
        /\ "value_counts" \in Range(last.trace) <=> last.cols[1] \in Range(categorical_cols)
        /\ "ax.hist" \in Range(last.trace) <=> "value_counts" \notin Range(last.trace)

\* a table with a numeric column of 11 distinct values, drawn as a
\* histogram, beside a column of 10, which has just been drawn as bars
C29_Witness ==
    /\ last.op = "plot_bar"
    /\ last.outcome = "ok"
    /\ df # None
    /\ df.columns = <<"g", "y">>
    /\ continuous_cols = <<"g">>
    /\ last.cols = <<"y">>
    /\ df.dtypes[2] = "num"
    /\ nunique(df, "y") = CardinalityThreshold
    /\ "value_counts" \in Range(last.trace)

\* the histogram branch for a Continuous column
C29_WitnessHistogram ==
    /\ last.op = "plot_bar"
    /\ last.outcome = "ok"
    /\ last.cols = <<"g">>
    /\ continuous_cols = <<"g">>
    /\ "ax.hist" \in Range(last.trace)

(***************************************************************************)
(* The current figure (SpecDraw).                                          *)
(***************************************************************************)
\* loads, selections, histograms that succeed, fail in the backend or fail
\* in _embed_figure, and saves
NextDraw ==
    \/ \E choice \in SessionFiles \cup {None} : LoadCsv(choice)
    \/ \E sel \in SUBSET (DOMAIN cont_listbox) : OnContSelect(sel)
    \/ ClearContSelection
    \/ \E lib \in LibOutcomes \cup TkOutcomes : DrawHistogram(lib)
    \/ \E choice \in {"cancel", "saved", "fails"} : SavePlot(choice)

SpecDraw == Init /\ [][NextDraw]_vars

\* a drawing handler has just shown that it failed
DrawFailed == dialog' # dialog /\ dialog'.kind = "showerror" /\ dialog'.text = "draw failed"

\* C30: _save_plot warns while no figure was ever embedded and otherwise
\* saves the figure of current_canvas; current_canvas changes only to the
\* figure a drawing handler has just embedded; the plot frame holds exactly
\* the canvas of current_canvas; a draw that fails leaves the current
\* figure and the plot frame as they were
C30_CurrentFigure ==
    [][/\ (dialog' # dialog /\ dialog'.text = "saved") =>
             /\ current_canvas # None
             /\ dialog'.figure = current_canvas.figure
       /\ (dialog' # dialog /\ dialog'.text = "no figure to save") =>
             /\ current_canvas = None
             /\ plot_frame = <<>>
       /\ current_canvas' # current_canvas =>
             /\ last'.form = "return"
             /\ current_canvas' = Canvas(last'.op, last'.cols)
       /\ DrawFailed => UNCHANGED <<current_canvas, plot_frame>>
       /\ plot_frame' = IF current_canvas' = None THEN <<>> ELSE <<current_canvas'>>]_vars

====
